---- MODULE Spec2Model ----
(***************************************************************************)
(* WANPTEK bench power supply: the MODBUS-RTU device session               *)
(* (wanptek_controller.py) and the SCPI text server with the web API that  *)
(* share it under one lock (wanptek_webapp.py).                            *)
(*                                                                         *)
(* Text is modelled as a sequence of one-character strings wherever the    *)
(* code looks inside it (input lines, normalization, dispatch, number      *)
(* formatting).  Fixed messages that the code only passes along are kept   *)
(* as single pieces of such a sequence.                                    *)
(*                                                                         *)
(* Engineering values (volts, amperes: Python floats) are modelled as      *)
(* integers in thousandths (5.0 V = 5000); register words are integers in  *)
(* units of 10^-decimals.                                                  *)
(***************************************************************************)
EXTENDS Integers, Sequences, FiniteSets, TLC

(* ---------------------------------------------------------------------- *)
(* Bounds of the model                                                     *)
(* ---------------------------------------------------------------------- *)
MaxRecv == 2
MaxWebReq == 1
MaxFaults == 1

(* ---------------------------------------------------------------------- *)
(* Text helpers (Python str methods used by the command processor)         *)
(* ---------------------------------------------------------------------- *)
LowerChars ==
  <<"a","b","c","d","e","f","g","h","i","j","k","l","m",
    "n","o","p","q","r","s","t","u","v","w","x","y","z">>

UpperChars ==
  <<"A","B","C","D","E","F","G","H","I","J","K","L","M",
    "N","O","P","Q","R","S","T","U","V","W","X","Y","Z">>

UpperChar(ch) ==
  IF \E k \in 1..26 : LowerChars[k] = ch
    THEN UpperChars[CHOOSE k \in 1..26 : LowerChars[k] = ch]
    ELSE ch

\* str.upper()
StrUpper(s) == [k \in 1..Len(s) |-> UpperChar(s[k])]

Whitespace == {" ", "\t", "\r", "\n"}

RECURSIVE LStrip(_)
LStrip(s) ==
  IF s # <<>> /\ s[1] \in Whitespace THEN LStrip(Tail(s)) ELSE s

RECURSIVE RStrip(_)
RStrip(s) ==
  IF s # <<>> /\ s[Len(s)] \in Whitespace
    THEN RStrip(SubSeq(s, 1, Len(s) - 1))
    ELSE s

\* str.strip()
Strip(s) == RStrip(LStrip(s))

\* index of the last occurrence of character ch in s, 0 when absent
IndexOfLast(s, ch) ==
  IF \E k \in 1..Len(s) : s[k] = ch
    THEN CHOOSE k \in 1..Len(s) : s[k] = ch /\ \A j \in (k + 1)..Len(s) : s[j] # ch
    ELSE 0

\* index of the first occurrence of character ch in s, 0 when absent
IndexOf(s, ch) ==
  IF \E k \in 1..Len(s) : s[k] = ch
    THEN CHOOSE k \in 1..Len(s) : s[k] = ch /\ \A j \in 1..(k - 1) : s[j] # ch
    ELSE 0

\* str.split(ch): every field between separators, empty fields included
RECURSIVE Split(_, _)
Split(s, ch) ==
  IF IndexOf(s, ch) = 0
    THEN <<s>>
    ELSE <<SubSeq(s, 1, IndexOf(s, ch) - 1)>>
           \o Split(SubSeq(s, IndexOf(s, ch) + 1, Len(s)), ch)

\* str.replace(old, new): non-overlapping occurrences, left to right
RECURSIVE Replace(_, _, _)
Replace(s, old, new) ==
  IF Len(s) < Len(old)
    THEN s
    ELSE IF SubSeq(s, 1, Len(old)) = old
      THEN new \o Replace(SubSeq(s, Len(old) + 1, Len(s)), old, new)
      ELSE <<s[1]>> \o Replace(Tail(s), old, new)

\* '\n'.join(list) on a list of texts
RECURSIVE Join(_)
Join(list) ==
  IF list = <<>> THEN <<>>
  ELSE IF Len(list) = 1 THEN list[1]
  ELSE list[1] \o <<"\n">> \o Join(Tail(list))

(* ---------------------------------------------------------------------- *)
(* SCPI command table, normalization and dispatch                          *)
(* ---------------------------------------------------------------------- *)
abbreviations ==
  << <<<<"S","O","U","R">>, <<"S","O","U","R","c","e">>>>,
     <<<<"V","O","L","T">>, <<"V","O","L","T","a","g","e">>>>,
     <<<<"C","U","R","R">>, <<"C","U","R","R","e","n","t">>>>,
     <<<<"M","E","A","S">>, <<"M","E","A","S","u","r","e">>>>,
     <<<<"O","U","T","P">>, <<"O","U","T","P","u","t">>>>,
     <<<<"S","T","A","T">>, <<"S","T","A","T","e">>>>,
     <<<<"P","R","O","T">>, <<"P","R","O","T","e","c","t","i","o","n">>>>,
     <<<<"S","Y","S","T">>, <<"S","Y","S","T","e","m">>>>,
     <<<<"Q","U","E","S">>, <<"Q","U","E","S","t","i","o","n","a","b","l","e">>>>,
     <<<<"O","P","E","R">>, <<"O","P","E","R","a","t","i","o","n">>>>,
     <<<<"C","O","N","D">>, <<"C","O","N","D","i","t","i","o","n">>>>,
     <<<<"I","M","M","E">>, <<"I","M","M","e","d","i","a","t","e">>>>,
     <<<<"A","M","P","L">>, <<"A","M","P","L","i","t","u","d","e">>>>,
     <<<<"L","E","V","E">>, <<"L","E","V","e","l">>>>,
     <<<<"T","R","I","P">>, <<"T","R","I","P","p","e","d">>>> >>

commands ==
  << [pat |-> <<"*","I","D","N","?">>,
      h |-> "get_identification"],
     [pat |-> <<"*","R","S","T">>,
      h |-> "reset_device"],
     [pat |-> <<"*","T","S","T","?">>,
      h |-> "self_test"],
     [pat |-> <<"S","Y","S","T","e","m",":","E","R","R","o","r","?">>,
      h |-> "get_error"],
     [pat |-> <<"S","Y","S","T","e","m",":","V","E","R","S","i","o","n","?">>,
      h |-> "get_version"],
     [pat |-> <<"S","O","U","R","c","e",":","V","O","L","T","a","g","e">>,
      h |-> "set_voltage"],
     [pat |-> <<"S","O","U","R","c","e",":","V","O","L","T","a","g","e","?">>,
      h |-> "get_voltage_setting"],
     [pat |-> <<"S","O","U","R","c","e",":","V","O","L","T","a","g","e",":","L","E","V","e","l",":","I","M","M","e","d","i","a","t","e",":","A","M","P","L","i","t","u","d","e">>,
      h |-> "set_voltage"],
     [pat |-> <<"V","O","L","T","a","g","e">>,
      h |-> "set_voltage"],
     [pat |-> <<"V","O","L","T","a","g","e","?">>,
      h |-> "get_voltage_setting"],
     [pat |-> <<"S","O","U","R","c","e",":","C","U","R","R","e","n","t">>,
      h |-> "set_current"],
     [pat |-> <<"S","O","U","R","c","e",":","C","U","R","R","e","n","t","?">>,
      h |-> "get_current_setting"],
     [pat |-> <<"S","O","U","R","c","e",":","C","U","R","R","e","n","t",":","L","E","V","e","l",":","I","M","M","e","d","i","a","t","e",":","A","M","P","L","i","t","u","d","e">>,
      h |-> "set_current"],
     [pat |-> <<"C","U","R","R","e","n","t">>,
      h |-> "set_current"],
     [pat |-> <<"C","U","R","R","e","n","t","?">>,
      h |-> "get_current_setting"],
     [pat |-> <<"M","E","A","S","u","r","e",":","V","O","L","T","a","g","e","?">>,
      h |-> "measure_voltage"],
     [pat |-> <<"M","E","A","S","u","r","e",":","C","U","R","R","e","n","t","?">>,
      h |-> "measure_current"],
     [pat |-> <<"M","E","A","S","u","r","e",":","P","O","W","e","r","?">>,
      h |-> "measure_power"],
     [pat |-> <<"M","E","A","S","u","r","e",":","A","L","L","?">>,
      h |-> "measure_all"],
     [pat |-> <<"O","U","T","P","u","t">>,
      h |-> "set_output_state"],
     [pat |-> <<"O","U","T","P","u","t","?">>,
      h |-> "get_output_state"],
     [pat |-> <<"O","U","T","P","u","t",":","S","T","A","T","e">>,
      h |-> "set_output_state"],
     [pat |-> <<"O","U","T","P","u","t",":","S","T","A","T","e","?">>,
      h |-> "get_output_state"],
     [pat |-> <<"S","O","U","R","c","e",":","C","U","R","R","e","n","t",":","P","R","O","T","e","c","t","i","o","n",":","S","T","A","T","e">>,
      h |-> "set_ocp_state"],
     [pat |-> <<"S","O","U","R","c","e",":","C","U","R","R","e","n","t",":","P","R","O","T","e","c","t","i","o","n",":","S","T","A","T","e","?">>,
      h |-> "get_ocp_state"],
     [pat |-> <<"S","O","U","R","c","e",":","C","U","R","R","e","n","t",":","P","R","O","T","e","c","t","i","o","n",":","T","R","I","P","p","e","d","?">>,
      h |-> "get_current_protection_tripped"],
     [pat |-> <<"S","T","A","T","u","s",":","Q","U","E","S","t","i","o","n","a","b","l","e",":","C","O","N","D","i","t","i","o","n","?">>,
      h |-> "get_questionable_condition"],
     [pat |-> <<"S","T","A","T","u","s",":","O","P","E","R","a","t","i","o","n",":","C","O","N","D","i","t","i","o","n","?">>,
      h |-> "get_operation_condition"] >>

\* str.lower(), for the spellings a client may choose
LowerChar(ch) ==
  IF \E k \in 1..26 : UpperChars[k] = ch
    THEN LowerChars[CHOOSE k \in 1..26 : UpperChars[k] = ch]
    ELSE ch

StrLower(s) == [k \in 1..Len(s) |-> LowerChar(s[k])]

RECURSIVE ExpandFrom(_, _)
ExpandFrom(s, k) ==
  IF k > Len(abbreviations)
    THEN s
    ELSE ExpandFrom(Replace(s, abbreviations[k][1], abbreviations[k][2]), k + 1)

\* SCPICommandProcessor._normalize_command
NormalizeCommand(command) == ExpandFrom(StrUpper(command), 1)

\* SCPICommandProcessor._match_command
MatchCommand(input_cmd, pattern_cmd) == input_cmd = StrUpper(pattern_cmd)

\* normalized_cmd.split(' ', 1)
CmdName(normalized) ==
  IF IndexOf(normalized, " ") = 0
    THEN normalized
    ELSE SubSeq(normalized, 1, IndexOf(normalized, " ") - 1)

NoParam == <<"<None>">>

CmdParam(normalized) ==
  IF IndexOf(normalized, " ") = 0
    THEN NoParam
    ELSE SubSeq(normalized, IndexOf(normalized, " ") + 1, Len(normalized))

\* a dispatcher that falls back to the first entry of the table
FindHandlerDefault(cmd_name) == commands[1].h

\* first matching entry of the command table, "" when there is none
FindHandler(cmd_name) ==
  IF \E k \in 1..Len(commands) : MatchCommand(cmd_name, commands[k].pat)
    THEN commands[CHOOSE k \in 1..Len(commands) :
                    /\ MatchCommand(cmd_name, commands[k].pat)
                    /\ \A j \in 1..(k - 1) : ~MatchCommand(cmd_name, commands[j].pat)].h
    ELSE ""

(* ---------------------------------------------------------------------- *)
(* Numbers: parsing, scaling and formatting                                *)
(* ---------------------------------------------------------------------- *)
DigitChars == <<"0","1","2","3","4","5","6","7","8","9">>

IsDigit(ch) == \E k \in 1..10 : DigitChars[k] = ch

DigitVal(ch) == (CHOOSE k \in 1..10 : DigitChars[k] = ch) - 1

RECURSIVE DigitsVal(_)
DigitsVal(s) ==
  IF s = <<>> THEN 0
  ELSE 10 * DigitsVal(SubSeq(s, 1, Len(s) - 1)) + DigitVal(s[Len(s)])

RECURSIVE NatToStr(_)
NatToStr(n) ==
  IF n < 10 THEN <<DigitChars[n + 1]>>
  ELSE NatToStr(n \div 10) \o <<DigitChars[(n % 10) + 1]>>

Pow10(d) == IF d = 0 THEN 1 ELSE IF d = 1 THEN 10 ELSE IF d = 2 THEN 100 ELSE 1000

\* float(value) for plain decimal literals [sign] digits [. digits] with at
\* most three fractional digits; every other text is a ValueError.
\* The result is in thousandths.
ParseFloat(text) ==
  LET t    == Strip(text)
      sgn  == t # <<>> /\ t[1] \in {"+", "-"}
      u    == IF sgn THEN Tail(t) ELSE t
      dot  == IndexOf(u, ".")
      ip   == IF dot = 0 THEN u ELSE SubSeq(u, 1, dot - 1)
      fp   == IF dot = 0 THEN <<>> ELSE SubSeq(u, dot + 1, Len(u))
      ok   == /\ Len(ip) + Len(fp) >= 1
              /\ Len(fp) <= 3
              /\ \A k \in 1..Len(ip) : IsDigit(ip[k])
              /\ \A k \in 1..Len(fp) : IsDigit(fp[k])
      mag  == DigitsVal(ip) * 1000 + DigitsVal(fp) * Pow10(3 - Len(fp))
  IN  IF ok
        THEN [ok |-> TRUE, v |-> IF sgn /\ t[1] = "-" THEN 0 - mag ELSE mag]
        ELSE [ok |-> FALSE, v |-> 0]

\* raw / 10 ** decimals, in thousandths
FromRaw(raw, decimals) == raw * Pow10(3 - decimals)

\* Register values r <= 1000 for which the double-precision product
\* (r / 100) * 100 lies just below r, so that int() of it is r - 1.
\* With one decimal place (r / 10) * 10 is exact for every 16-bit r.
TruncLoss2 ==
  { 29, 57, 58, 113, 114, 115, 116, 201, 203, 205, 207, 226, 228, 230, 232,
    251, 253, 255, 402, 406, 410, 414, 427, 431, 435, 439, 452, 456, 460,
    464, 477, 481, 485, 489, 502, 506, 510, 803, 804, 812, 820, 828, 829,
    837, 845, 853, 854, 862, 870, 878, 879, 887, 895, 903, 904, 912, 920,
    928, 929, 937, 945, 953, 954, 962, 970, 978, 979, 987, 995 }

\* int(target * 10 ** decimals) for target >= 0 given in thousandths
ToRawNat(v, decimals) ==
  LET unit == Pow10(3 - decimals)
      r    == v \div unit
  IN  IF decimals = 2 /\ v % unit = 0 /\ r \in TruncLoss2 THEN r - 1 ELSE r

\* int() truncates toward zero
ToRaw(v, decimals) ==
  IF v >= 0 THEN ToRawNat(v, decimals) ELSE 0 - ToRawNat(0 - v, decimals)

Pad3(n) ==
  <<DigitChars[(n \div 100) + 1], DigitChars[((n \div 10) % 10) + 1],
    DigitChars[(n % 10) + 1]>>

\* f"{x:.3f}" for x >= 0 given in thousandths
Fmt3(v) == NatToStr(v \div 1000) \o <<".">> \o Pad3(v % 1000)

(* ---------------------------------------------------------------------- *)
(* Device profile and status decoding                                      *)
(* ---------------------------------------------------------------------- *)
VOLTAGE_RANGES ==
  [k \in 0..8 |-> <<15, 30, 60, 100, 120, 150, 160, 200, 300>>[k + 1]]

CURRENT_RANGES ==
  [k \in 0..13 |->
     <<1, 2, 3, 5, 6, 10, 20, 30, 40, 50, 60, 80, 100, 200>>[k + 1]]

\* self.device_model as __init__ leaves it
DeviceModelInitial(prof) == <<"Unknown">>

\* self.VOLTAGE_RANGES.get(self.voltage_series, 0)
NominalVoltage(prof) ==
  IF prof.voltage_series \in DOMAIN VOLTAGE_RANGES
  THEN VOLTAGE_RANGES[prof.voltage_series] ELSE 0

\* self.CURRENT_RANGES.get(self.current_series, 0)
NominalCurrent(prof) ==
  IF prof.current_series \in DOMAIN CURRENT_RANGES
  THEN CURRENT_RANGES[prof.current_series] ELSE 0

\* f"WANPTEK {nominal_voltage}V/{nominal_current}A"
DeviceModel(prof) ==
  <<"WANPTEK ">> \o NatToStr(NominalVoltage(prof)) \o <<"V/">>
    \o NatToStr(NominalCurrent(prof)) \o <<"A">>

\* self.max_voltage and self.max_current, in thousandths
MaxVoltage(prof) == FromRaw(prof.max_voltage_raw, prof.voltage_decimal_places)

MaxCurrent(prof) == FromRaw(prof.max_current_raw, prof.current_decimal_places)

\* What the unit measures at its terminals: the set voltage while the
\* output is on, no load connected.
RealVoltageRaw(d) == IF d.power THEN d.sv ELSE 0

RealCurrentRaw(d) == 0

\* WanptekPowerSupply.read_status: the dictionary decoded from a status
\* frame of a unit whose registers are d.  Powers are in millionths.
StatusOf(d, prof) ==
  LET rv == FromRaw(RealVoltageRaw(d), prof.voltage_decimal_places)
      ri == FromRaw(RealCurrentRaw(d), prof.current_decimal_places)
      sv == FromRaw(d.sv, prof.voltage_decimal_places)
      si == FromRaw(d.si, prof.current_decimal_places)
  IN  [power_on |-> d.power, ocp_enabled |-> d.ocp,
       keyboard_locked |-> d.keylock,
       constant_current_mode |-> FALSE, alarm_active |-> FALSE,
       real_voltage |-> rv, real_current |-> ri,
       set_voltage |-> sv, set_current |-> si,
       real_power |-> rv * ri, set_power |-> sv * si]

(* ---------------------------------------------------------------------- *)
(* set_output                                                              *)
(* ---------------------------------------------------------------------- *)
\* Arguments of set_output: "given" names the arguments that are not None.
Args(given, v, i, p, o, k) ==
  [given |-> given, v |-> v, i |-> i, p |-> p, o |-> o, k |-> k]

\* provided values, or the current settings
Targets(a, st) ==
  [v |-> IF "v" \in a.given THEN a.v ELSE st.set_voltage,
   i |-> IF "i" \in a.given THEN a.i ELSE st.set_current,
   p |-> IF "p" \in a.given THEN a.p ELSE st.power_on,
   o |-> IF "o" \in a.given THEN a.o ELSE st.ocp_enabled,
   k |-> IF "k" \in a.given THEN a.k ELSE st.keyboard_locked]

\* the range validation without its test for negative values
RangeErrorNoNegative(tv, ti, prof) ==
  IF tv > MaxVoltage(prof) THEN "Voltage exceeds maximum"
  ELSE IF ti > MaxCurrent(prof) THEN "Current exceeds maximum"
  ELSE ""

\* the range validation: the message of the ValueError, "" when none
RangeError(tv, ti, prof) ==
  IF tv > MaxVoltage(prof) THEN "Voltage exceeds maximum"
  ELSE IF ti > MaxCurrent(prof) THEN "Current exceeds maximum"
  ELSE IF tv < 0 \/ ti < 0 THEN "Voltage and current must be non-negative"
  ELSE ""

ControlByte(tg) ==
  (IF tg.p THEN 1 ELSE 0) + (IF tg.o THEN 2 ELSE 0) + (IF tg.k THEN 4 ELSE 0)

\* the status read request and the write request, before the checksum
ReadRequest == [fn |-> 3, start |-> 0, count |-> 8, ctrl |-> 0, v |-> 0, i |-> 0]

WriteRequest(tg, prof) ==
  [fn |-> 16, start |-> 0, count |-> 3, ctrl |-> ControlByte(tg),
   v |-> ToRaw(tg.v, prof.voltage_decimal_places),
   i |-> ToRaw(tg.i, prof.current_decimal_places)]

NoRequest == [fn |-> 0, start |-> 0, count |-> 0, ctrl |-> 0, v |-> 0, i |-> 0]

\* the unit stores what a write request carries
DeviceAfterWrite(d, fr) ==
  [d EXCEPT !.power = (fr.ctrl % 2 = 1),
            !.ocp = ((fr.ctrl \div 2) % 2 = 1),
            !.keylock = ((fr.ctrl \div 4) % 2 = 1),
            !.sv = fr.v, !.si = fr.i]

(* ---------------------------------------------------------------------- *)
(* Bytes on the link: words, checksums and frames                          *)
(*                                                                         *)
(* A frame is a sequence of bytes (0..255), a word is a number 0..65535.   *)
(* ---------------------------------------------------------------------- *)
\* struct.pack('<H', value) and struct.unpack('<H', data)[0]
PackLittle(value) == <<value % 256, value \div 256>>

UnpackLittle(data) == data[1] + 256 * data[2]

\* struct.pack('>H', value) and struct.unpack('>H', data)[0]
PackBig(value) == <<value \div 256, value % 256>>

UnpackBig(data) == 256 * data[1] + data[2]

\* _pack_word that ignores the byte order of the session
PackWordLittleOnly(value, little_endian) == PackLittle(value)

\* WanptekPowerSupply._pack_word
PackWord(value, little_endian) ==
  IF little_endian THEN PackLittle(value) ELSE PackBig(value)

\* WanptekPowerSupply._unpack_word
UnpackWord(data, little_endian) ==
  IF little_endian THEN UnpackLittle(data) ELSE UnpackBig(data)

\* the 'H' of a struct.pack format without a byte-order prefix: the byte
\* order of the machine the program runs on (sys.byteorder)
PackNative(value, host) ==
  IF host = "little" THEN PackLittle(value) ELSE PackBig(value)

\* the value b & mask != 0 for a mask of one bit
BitSet(b, mask) == (b \div mask) % 2 = 1

\* a ^ b of two numbers below 2^n
RECURSIVE XorBits(_, _, _)
XorBits(a, b, n) ==
  IF n = 0 THEN 0
  ELSE ((a + b) % 2) + 2 * XorBits(a \div 2, b \div 2, n - 1)

CrcInit == 65535

CrcPoly == 40961

\* x ^ 0xA001 for x below 2^15, as crc >> 1 is: 0xA001 has the bits 15, 13
\* and 0, so bit 15 becomes set and bits 13 and 0 are inverted
XorPoly(x) ==
  x + 32768 + (IF BitSet(x, 8192) THEN 0 - 8192 ELSE 8192)
    + (IF BitSet(x, 1) THEN 0 - 1 ELSE 1)

\* one turn of the inner loop of _calculate_crc
CrcShift1(crc) == IF crc % 2 = 1 THEN XorPoly(crc \div 2) ELSE crc \div 2

\* the inner loop of _calculate_crc: n turns
RECURSIVE CrcShift(_, _)
CrcShift(crc, n) == IF n = 0 THEN crc ELSE CrcShift1(CrcShift(crc, n - 1))

\* one turn of the outer loop of _calculate_crc: crc ^= byte, then the
\* inner loop
CrcByte ==
  [crc \in Nat, byte \in Nat |->
     CrcShift(256 * (crc \div 256) + XorBits(crc % 256, byte, 8), 8)]

\* the outer loop of _calculate_crc over data, from the register value crc
RECURSIVE CrcOver(_, _)
CrcOver(crc, data) ==
  IF data = <<>> THEN crc
  ELSE CrcByte[CrcOver(crc, SubSeq(data, 1, Len(data) - 1)), data[Len(data)]]

\* WanptekPowerSupply._calculate_crc
CalculateCrc(data) == CrcOver(CrcInit, data)

\* full_command with the checksum high byte first
AppendCrcHighFirst(command) == command \o PackBig(CalculateCrc(command))

\* _send_command: full_command = command + struct.pack('<H', crc)
AppendCrc(command) == command \o PackLittle(CalculateCrc(command))

\* response[:-2] and response[-2:]
DataPart(response) == SubSeq(response, 1, Len(response) - 2)

CrcPart(response) == SubSeq(response, Len(response) - 1, Len(response))

\* a verification that accepts every response
CrcNotVerified(response) == TRUE

\* _send_command: received_crc == calculated_crc (response of 3 bytes or more)
CrcMatches(response) ==
  UnpackLittle(CrcPart(response)) = CalculateCrc(DataPart(response))

\* how _send_command ends for the bytes it has collected
SendOutcome(response) ==
  IF Len(response) < 3 THEN "timeout"
  ELSE IF ~CrcMatches(response) THEN "crc"
  ELSE "ok"

\* a status read that looks at the length of the response only
StatusOutcomeLengthOnly(response) ==
  IF Len(response) < 3 THEN "timeout"
  ELSE IF Len(response) < 21 THEN "short"
  ELSE "ok"

\* how _read_raw_status ends for the bytes _send_command has collected
StatusOutcome(response) ==
  IF SendOutcome(response) # "ok" THEN SendOutcome(response)
  ELSE IF Len(response) < 21 THEN "short"
  ELSE "ok"

\* _read_raw_status: the request, before the checksum
ReadRequestBody(slave_addr, host) ==
  <<slave_addr, 3>> \o PackNative(0, host) \o PackNative(8, host)

\* set_output: the request, before the checksum
WriteRequestBody(slave_addr, host, fr, prof) ==
  <<slave_addr, 16>> \o PackNative(0, host) \o PackNative(3, host) \o <<6>>
    \o <<fr.ctrl, 0>>
    \o PackWord(fr.v, prof.little_endian)
    \o PackWord(fr.i, prof.little_endian)

\* data = status[3:19]
Payload(status) == SubSeq(status, 4, 19)

\* read_status: the dictionary decoded from the bytes of a status frame, in
\* thousandths; the two powers are products of fields listed here
DecodeStatus(status, prof) ==
  LET data == Payload(status)
      word(k) == UnpackWord(SubSeq(data, k + 1, k + 2), prof.little_endian)
  IN  [power_on |-> BitSet(data[1], 1), ocp_enabled |-> BitSet(data[1], 2),
       keyboard_locked |-> BitSet(data[1], 4),
       constant_current_mode |-> BitSet(data[1], 16),
       alarm_active |-> BitSet(data[1], 32),
       real_voltage |-> FromRaw(word(4), prof.voltage_decimal_places),
       real_current |-> FromRaw(word(6), prof.current_decimal_places),
       set_voltage |-> FromRaw(word(8), prof.voltage_decimal_places),
       set_current |-> FromRaw(word(10), prof.current_decimal_places)]

(* ---------------------------------------------------------------------- *)
(* Command handlers                                                        *)
(* ---------------------------------------------------------------------- *)
SetHandlers == {"set_voltage", "set_current", "set_output_state", "set_ocp_state"}

QueryHandlers ==
  {"get_voltage_setting", "get_current_setting", "measure_voltage",
   "measure_current", "measure_power", "measure_all", "get_output_state",
   "get_ocp_state", "get_current_protection_tripped",
   "get_operation_condition"}

LocalHandlers ==
  {"get_identification", "self_test", "get_error", "get_version",
   "get_questionable_condition"}

WebHandlers == {"api_status", "api_set_output", "api_power", "api_stream"}

NoArgs == Args({}, 0, 0, FALSE, FALSE, FALSE)

PlanReply(reply) == [kind |-> "reply", reply |-> reply, args |-> NoArgs]

PlanSet(args) == [kind |-> "set", reply |-> <<>>, args |-> args]

PlanQuery == [kind |-> "query", reply |-> <<>>, args |-> NoArgs]

IsOn(state) == StrUpper(state) \in {<<"O","N">>, <<"1">>}

IsOff(state) == StrUpper(state) \in {<<"O","F","F">>, <<"0">>}

\* What the matched handler does when it is called with param (NoParam:
\* called without argument), up to its first use of the device.
HandlerPlan(h, param, prof) ==
  IF h = "" THEN PlanReply(<<"ERROR: ", "Unknown command">>)
  ELSE IF h \notin SetHandlers /\ param # NoParam
    THEN PlanReply(<<"ERROR: ", "takes 1 positional argument but 2 were given">>)
  ELSE IF h = "get_identification"
    THEN PlanReply(<<"WANPTEK", ",">> \o DeviceModel(prof)
                     \o <<",", "SN123456", ",", "V1.0">>)
  ELSE IF h = "self_test" THEN PlanReply(<<"0">>)
  ELSE IF h = "get_error" THEN PlanReply(<<"0,\"No error\"">>)
  ELSE IF h = "get_version" THEN PlanReply(<<"1999.0">>)
  ELSE IF h = "get_questionable_condition" THEN PlanReply(<<"0">>)
  ELSE IF h = "reset_device"
    THEN PlanSet(Args({"v", "i", "p", "o"}, 0, 0, FALSE, TRUE, FALSE))
  ELSE IF h \in SetHandlers /\ param = NoParam
    THEN PlanReply(<<"ERROR: ", "Missing parameter">>)
  ELSE IF h = "set_voltage"
    THEN IF ParseFloat(param).ok
           THEN PlanSet(Args({"v"}, ParseFloat(param).v, 0, FALSE, FALSE, FALSE))
           ELSE PlanReply(<<"ERROR: ", "could not convert string to float">>)
  ELSE IF h = "set_current"
    THEN IF ParseFloat(param).ok
           THEN PlanSet(Args({"i"}, 0, ParseFloat(param).v, FALSE, FALSE, FALSE))
           ELSE PlanReply(<<"ERROR: ", "could not convert string to float">>)
  ELSE IF h = "set_output_state"
    THEN IF IsOn(param) THEN PlanSet(Args({"p"}, 0, 0, TRUE, FALSE, FALSE))
         ELSE IF IsOff(param) THEN PlanSet(Args({"p"}, 0, 0, FALSE, FALSE, FALSE))
         ELSE PlanReply(<<"ERROR: ", "Invalid parameter">>)
  ELSE IF h = "set_ocp_state"
    THEN IF IsOn(param) THEN PlanSet(Args({"o"}, 0, 0, FALSE, TRUE, FALSE))
         ELSE IF IsOff(param) THEN PlanSet(Args({"o"}, 0, 0, FALSE, FALSE, FALSE))
         ELSE PlanReply(<<"ERROR: ", "Invalid parameter">>)
  ELSE PlanQuery

Flag(b) == IF b THEN <<"1">> ELSE <<"0">>

\* the reply of a query handler whose status read succeeded
QueryReply(h, st) ==
  IF h = "get_voltage_setting" THEN Fmt3(st.set_voltage)
  ELSE IF h = "get_current_setting" THEN Fmt3(st.set_current)
  ELSE IF h = "measure_voltage" THEN Fmt3(st.real_voltage)
  ELSE IF h = "measure_current" THEN Fmt3(st.real_current)
  ELSE IF h = "measure_power" THEN Fmt3((st.real_power + 500000) \div 1000000)
  ELSE IF h = "measure_all"
    THEN Fmt3(st.real_voltage) \o <<",">> \o Fmt3(st.real_current) \o <<",">>
           \o Fmt3((st.real_power + 500000) \div 1000000)
  ELSE IF h = "get_output_state" THEN Flag(st.power_on)
  ELSE IF h = "get_ocp_state" THEN Flag(st.ocp_enabled)
  ELSE IF h = "get_current_protection_tripped" THEN Flag(st.constant_current_mode)
  ELSE IF h = "get_operation_condition"
    THEN IF st.constant_current_mode THEN <<"2">> ELSE <<"0">>
  ELSE <<"success">>

\* an exception that no except clause turns into a reply
HandlerOutcomeRaises(h, msg) == [raised |-> TRUE, reply |-> <<>>]

\* What becomes of an exception with message msg raised by the device
\* session inside handler h: the handler's own except clause (and, behind
\* it, the one of _process_single_command) turns it into a reply.
HandlerOutcome(h, msg) ==
  IF h \in SetHandlers THEN [raised |-> FALSE, reply |-> <<"ERROR: ", msg>>]
  ELSE IF h = "get_operation_condition" THEN [raised |-> FALSE, reply |-> <<"0">>]
  ELSE IF h \in WebHandlers THEN [raised |-> FALSE, reply |-> <<"error", msg>>]
  ELSE [raised |-> FALSE, reply |-> <<"ERROR">>]

\* The reply of handler h after set_output has returned success (a
\* Boolean): the SCPI handlers do not look at it.
SetReply(h, success) ==
  IF h = "api_power" THEN IF success THEN <<"success">> ELSE <<"failure">>
  ELSE IF h \in WebHandlers
    THEN IF success THEN <<"success">> ELSE <<"error", "Failed to set output">>
  ELSE <<"OK">>

\* the messages of the failures of _send_command and _read_raw_status
FailureMessage(kind) ==
  IF kind = "timeout" THEN "Timeout"
  ELSE IF kind = "crc" THEN "CRC verification failed"
  ELSE IF kind = "short" THEN "Invalid response length"
  ELSE IF kind = "closed" THEN "Port not open"
  ELSE "Device not connected"

(* ---------------------------------------------------------------------- *)
(* Callers, inputs and the unit on the bench                               *)
(* ---------------------------------------------------------------------- *)
\* SCPI client connections (one thread each) and web API callers
Conns == {"c1", "c2"}

Webs == {"w1"}

Threads == Conns \cup Webs

NoHolder == "none"

\* data a client may deliver in one recv()
Chunks ==
  { <<"*","R","S","T","\n">>,
    <<"*","I","D","N","?","\n">>,
    <<"V","O","L","T"," ","5",".","0",";","V","O","L","T","?","\n">>,
    <<"Q","U","I","T","\n","*","R","S","T","\n">> }

\* the line "VOLT 5.0;VOLT?"
VoltLine == <<"V","O","L","T"," ","5",".","0",";","V","O","L","T","?">>

QuitWords == { <<"Q","U","I","T">>, <<"E","X","I","T">> }

\* requests of the web API: /api/status, /api/set_output, /api/power/on
WebOps ==
  { [h |-> "api_status", args |-> NoArgs],
    [h |-> "api_set_output", args |-> Args({"i"}, 0, 290, FALSE, FALSE, FALSE)],
    [h |-> "api_set_output", args |-> Args({"v"}, 7000, 0, FALSE, FALSE, FALSE)],
    [h |-> "api_set_output", args |-> Args({"i"}, 0, 0 - 1000, FALSE, FALSE, FALSE)],
    [h |-> "api_power", args |-> Args({"p"}, 0, 0, TRUE, FALSE, FALSE)] }

\* The profile detected from the unit and the registers the unit starts
\* with: a 15 V / 3 A unit with two decimal places limited to 6.00 V and
\* 3.00 A, output off, set to 5.02 V and to 1.00 A or, above the limit its
\* status frames report, 3.50 A.
Profiles ==
  { [voltage_decimal_places |-> 2, current_decimal_places |-> 2,
     voltage_series |-> 0, current_series |-> 2,
     max_voltage_raw |-> 600, max_current_raw |-> 300,
     little_endian |-> TRUE] }

InitialSetCurrent == {100, 350}

InitialDevice(sv, si) ==
  [power |-> FALSE, ocp |-> FALSE, keylock |-> FALSE, sv |-> sv, si |-> si]

NoStatus == StatusOf(InitialDevice(0, 0), CHOOSE pr \in Profiles : TRUE)

NoTargets == [v |-> 0, i |-> 0, p |-> FALSE, o |-> FALSE, k |-> FALSE]

NoCall ==
  [h |-> "", kind |-> "none", args |-> NoArgs, stage |-> "",
   st |-> NoStatus, tg |-> NoTargets]

\* what a connection log records: a text sent, a line handed over
Greeting == <<"WANPTEK SCPI Server Ready\n">>

Farewell == <<"Goodbye\n">>

Sent(text) == [k |-> "send", text |-> text]

Handed(line) == [k |-> "cmd", text |-> line]

\* where a handler call failed (status read, range validation, write
\* request, status read after the write) and how
NoFail == [at |-> "none", kind |-> "none"]

Fail(at, kind) == [at |-> at, kind |-> kind]

NoLast ==
  [h |-> "", kind |-> "none", fail |-> NoFail, reply |-> <<>>,
   wrote |-> FALSE, given |-> {}, tg |-> NoTargets]

(* ---------------------------------------------------------------------- *)
(* State                                                                   *)
(* ---------------------------------------------------------------------- *)
VARIABLES
  pc,          \* where each thread is
  buffer,      \* _handle_client: the text received and not yet split
  subs,        \* process_command: the sub-commands still to be processed
  responses,   \* process_command: the replies collected so far
  call,        \* the handler a thread is inside, and how far it has got
  req,         \* the request a thread has written and not yet seen answered
  lock,        \* psu_lock: the thread holding it
  waitq,       \* the threads blocked on psu_lock, in the order they arrived
  dev,         \* the registers of the unit
  profile,     \* the device profile of the session
  connected,   \* WanptekPowerSupply.connected
  serialOpen,  \* WanptekPowerSupply.serial.is_open
  faults,      \* how many requests the link has failed so far
  recvs,       \* how many times a peer has acted: data, departure, reset
  webn,        \* how many web requests have been made so far
  log,         \* per connection: lines handed over and texts sent
  last,        \* per thread: the handler call completed last
  wanted,      \* the settings requested by the successful set calls
  closedBy,    \* per connection: why it was closed
  env,         \* the machine: serial devices found, links that open, pairs that answer
  ctorArgs,    \* the arguments WanptekPowerSupply() was called with
  ctorState,   \* "running", or how the constructor ended
  tried,       \* the (link, speed) pairs _connect was called with, in order
  framed,      \* the pairs at which a status read request was written
  serialAt,    \* the pair self.serial was opened with last
  codec,       \* a conversion under way: its input and what it has produced
  host,        \* sys.byteorder of the machine the program runs on
  attached,    \* the registers of the unit attached to the link
  arriving,    \* bytes the unit has sent that have not yet arrived
  rx,          \* the input buffer of the serial link: bytes arrived, not read
  libcall,     \* the library call under way and how far it has got
  sends        \* the calls of _send_command so far: frame, response, outcome

\* the state of the construction of the session
cvars == <<env, ctorArgs, ctorState, tried, framed, serialAt>>

\* the state of the link seen byte by byte
bvars == <<codec, host, attached, arriving, rx, libcall, sends>>

vars ==
  <<pc, buffer, subs, responses, call, req, lock, waitq, dev, profile,
    connected, serialOpen, faults, recvs, webn, log, last, wanted, closedBy,
    cvars, bvars>>

(* ---------------------------------------------------------------------- *)
(* Construction of the session: candidates and detection                   *)
(* ---------------------------------------------------------------------- *)
\* an argument left at None, or given with value v
NotGiven(v) == [given |-> FALSE, v |-> v]

Given(v) == [given |-> TRUE, v |-> v]

\* "if preferred_port:" and "if preferred_baudrate:": None, the empty
\* string and 0 all count as false
Truthy(arg, empty) == arg.given /\ arg.v # empty

FallbackPort == "/dev/ttyUSB0"

DefaultBaudrates == <<9600, 4800, 19200, 2400>>

\* candidate links that ignore the link the caller gave
PortsToTryDiscovered(args, machine) ==
  IF machine.found # <<>> THEN machine.found ELSE <<FallbackPort>>

\* ports_to_try
PortsToTry(args, machine) ==
  IF Truthy(args.port, "") THEN <<args.port.v>>
  ELSE IF machine.found # <<>> THEN machine.found
  ELSE <<FallbackPort>>

\* baudrates_to_try
BaudratesToTry(args) ==
  IF Truthy(args.baudrate, 0) THEN <<args.baudrate.v>> ELSE DefaultBaudrates

\* the pairs of the nested loops "for port ... for baudrate ...", in order
Candidates(args, machine) ==
  LET ports == PortsToTry(args, machine)
      bauds == BaudratesToTry(args)
  IN  [k \in 1..(Len(ports) * Len(bauds)) |->
         <<ports[((k - 1) \div Len(bauds)) + 1], bauds[((k - 1) % Len(bauds)) + 1]>>]

NoPair == <<"", 0>>

\* the profile fields as __init__ sets them
InitialProfile ==
  [voltage_decimal_places |-> 2, current_decimal_places |-> 2,
   voltage_series |-> 0, current_series |-> 0,
   max_voltage_raw |-> 0, max_current_raw |-> 0,
   little_endian |-> TRUE]

\* the configuration bytes and limit words of the status frame of the unit
BenchFrame ==
  [status_byte |-> 0, voltage_info |-> 0, current_info |-> 2,
   max_voltage_raw |-> 600, max_current_raw |-> 300]

\* _detect_device_specs: the profile derived from a status frame
DetectDeviceSpecs(fr) ==
  [voltage_decimal_places |-> IF (fr.voltage_info \div 16) % 16 # 0 THEN 1 ELSE 2,
   current_decimal_places |-> IF (fr.current_info \div 16) % 16 # 0 THEN 1 ELSE 2,
   voltage_series |-> fr.voltage_info % 16,
   current_series |-> fr.current_info % 16,
   max_voltage_raw |-> fr.max_voltage_raw,
   max_current_raw |-> fr.max_current_raw,
   little_endian |-> (fr.status_byte \div 8) % 2 = 0]

\* the machine the connected session of Init runs on, and its construction
BenchMachine ==
  [found |-> <<FallbackPort>>, openable |-> {FallbackPort},
   answering |-> {<<FallbackPort, 9600>>}]

DefaultArgs == [port |-> NotGiven(""), baudrate |-> NotGiven(0), auto_detect |-> TRUE]

\* no conversion and no library call is followed byte by byte
NoJob == [op |-> "none"]

NoOp == [name |-> "idle"]

BytesUnused ==
  /\ codec = NoJob
  /\ host = "little"
  /\ attached = BenchFrame
  /\ arriving = <<>>
  /\ rx = <<>>
  /\ libcall = NoOp
  /\ sends = <<>>

Constructed ==
  /\ env = BenchMachine
  /\ ctorArgs = DefaultArgs
  /\ ctorState = "connected"
  /\ tried = << <<FallbackPort, 9600>> >>
  /\ framed = << <<FallbackPort, 9600>> >>
  /\ serialAt = <<FallbackPort, 9600>>

\* The session has been constructed and is connected: the link is open and
\* the profile has been detected.  Both connections have been accepted and
\* greeted.
Init ==
  /\ pc = [t \in Threads |-> IF t \in Conns THEN "recv" ELSE "idle"]
  /\ buffer = [c \in Conns |-> <<>>]
  /\ subs = [t \in Threads |-> <<>>]
  /\ responses = [t \in Threads |-> <<>>]
  /\ call = [t \in Threads |-> NoCall]
  /\ req = [t \in Threads |-> NoRequest]
  /\ lock = NoHolder
  /\ waitq = <<>>
  /\ \E si \in InitialSetCurrent : dev = InitialDevice(502, si)
  /\ profile \in Profiles
  /\ connected = TRUE
  /\ serialOpen = TRUE
  /\ faults = 0
  /\ recvs = 0
  /\ webn = 0
  /\ log = [c \in Conns |-> <<Sent(Greeting)>>]
  /\ last = [t \in Threads |-> NoLast]
  /\ wanted = [v |-> 0 - 1, i |-> 0 - 1]
  /\ closedBy = [c \in Conns |-> "open"]
  /\ Constructed
  /\ BytesUnused

(* ---------------------------------------------------------------------- *)
(* Helpers of the actions                                                  *)
(* ---------------------------------------------------------------------- *)
\* "while '\\n' in buffer": with a complete line buffered the loop body runs
\* next, otherwise the thread is back in recv()
AtLoopTest(buf) == IF IndexOf(buf, "\n") # 0 THEN "lines" ELSE "recv"

\* a lock that lets every caller in
LockAlwaysAvailable(holder) == TRUE

\* threading.Lock: acquire() returns only while no thread holds the lock
LockAvailable(holder) == holder = NoHolder

\* a "with" block that keeps the lock when it is left
LockKeptAfterWith(holder) == holder

\* leaving "with psu_lock", by its end or by an exception, releases the lock
LockAfterWith(holder) == NoHolder

\* a guard that looks at the connected flag only
LinkUsableIfConnected(conn, open) == conn

\* the guard at the head of _send_command
LinkUsable(conn, open) == conn /\ open

Remove(q, t) == SelectSeq(q, LAMBDA x : x # t)

RECURSIVE NonEmptyStripped(_)
NonEmptyStripped(list) ==
  IF list = <<>> THEN <<>>
  ELSE IF Strip(Head(list)) = <<>> THEN NonEmptyStripped(Tail(list))
  ELSE <<Strip(Head(list))>> \o NonEmptyStripped(Tail(list))

\* the sub-commands of a line, the empty ones included
SubCommandsKeepEmpty(command_line) ==
  IF Strip(command_line) = <<>> THEN <<>>
  ELSE [k \in DOMAIN Split(Strip(command_line), ";") |->
          Strip(Split(Strip(command_line), ";")[k])]

\* process_command: the stripped, non-empty sub-commands of a line
SubCommands(command_line) ==
  IF Strip(command_line) = <<>> THEN <<>>
  ELSE NonEmptyStripped(Split(Strip(command_line), ";"))

Reply(text) == [raised |-> FALSE, reply |-> text]

\* what the link can do with a request that has been written
Outcomes ==
  IF ~serialOpen THEN {"closed"}
  ELSE {"ok"} \cup (IF faults < MaxFaults THEN {"timeout", "crc", "short"} ELSE {})

\* A handler call of thread t ends.  Its reply joins the replies of the
\* line; an exception that left process_command would instead release the
\* lock and end the connection (or fail the web request).
Finish(t, h, kind, fail, out, wrote, given, tg) ==
  /\ call' = [call EXCEPT ![t] = NoCall]
  /\ req' = [req EXCEPT ![t] = NoRequest]
  /\ last' = [last EXCEPT ![t] =
                [h |-> h, kind |-> kind, fail |-> fail, reply |-> out.reply,
                 wrote |-> wrote, given |-> given, tg |-> tg]]
  /\ IF out.raised
       THEN /\ lock' = NoHolder
            /\ subs' = [subs EXCEPT ![t] = <<>>]
            /\ responses' = [responses EXCEPT ![t] = <<>>]
            /\ pc' = [pc EXCEPT ![t] = IF t \in Conns THEN "closed" ELSE "idle"]
            /\ closedBy' = IF t \in Conns
                             THEN [closedBy EXCEPT ![t] = "raised"]
                             ELSE closedBy
       ELSE /\ pc' = [pc EXCEPT ![t] = "exec"]
            /\ subs' = [subs EXCEPT ![t] = Tail(subs[t])]
            /\ responses' = [responses EXCEPT ![t] = Append(responses[t], out.reply)]
            /\ UNCHANGED <<lock, closedBy>>

\* A handler call goes on with the next request on the link.
Continue(t, c, fr) ==
  /\ call' = [call EXCEPT ![t] = c]
  /\ req' = [req EXCEPT ![t] = fr]
  /\ pc' = [pc EXCEPT ![t] = "sent"]
  /\ UNCHANGED <<subs, responses, last, lock, closedBy>>

\* A handler is entered: it replies at once, or read_status sends the
\* status read request.
Begin(t, h, plan) ==
  IF plan.kind = "reply"
    THEN Finish(t, h, plan.kind, NoFail, Reply(plan.reply), FALSE, {}, NoTargets)
  ELSE IF ~LinkUsable(connected, serialOpen)
    THEN Finish(t, h, plan.kind, Fail("read", "notconnected"),
                HandlerOutcome(h, FailureMessage("notconnected")),
                FALSE, plan.args.given, NoTargets)
  ELSE Continue(t, [h |-> h, kind |-> plan.kind, args |-> plan.args,
                    stage |-> "status", st |-> NoStatus, tg |-> NoTargets],
                ReadRequest)

\* send() raises because the peer has reset the connection: the loop is
\* left and the socket is closed.  Like every act of a peer it is counted
\* in recvs.
SendFails(c) ==
  /\ recvs < MaxRecv
  /\ recvs' = recvs + 1
  /\ pc' = [pc EXCEPT ![c] = "closed"]
  /\ closedBy' = [closedBy EXCEPT ![c] = "send"]
  /\ UNCHANGED log

(* ---------------------------------------------------------------------- *)
(* Actions                                                                 *)
(* ---------------------------------------------------------------------- *)
\* recv() returns data
Recv(c) ==
  /\ pc[c] = "recv"
  /\ recvs < MaxRecv
  /\ \E data \in Chunks : buffer' = [buffer EXCEPT ![c] = buffer[c] \o data]
  /\ recvs' = recvs + 1
  /\ pc' = [pc EXCEPT ![c] = AtLoopTest(buffer'[c])]
  /\ UNCHANGED <<subs, responses, call, req, lock, waitq, dev, profile,
                 connected, serialOpen, faults, webn, log, last, wanted,
                 closedBy,
                 cvars, bvars>>

\* recv() returns no data because the peer has gone, or recv() or decode()
\* raises: the loop is left and the socket is closed
Disconnect(c) ==
  /\ pc[c] = "recv"
  /\ recvs < MaxRecv
  /\ recvs' = recvs + 1
  /\ pc' = [pc EXCEPT ![c] = "closed"]
  /\ \E why \in {"peer", "error"} : closedBy' = [closedBy EXCEPT ![c] = why]
  /\ UNCHANGED <<buffer, subs, responses, call, req, lock, waitq, dev, profile,
                 connected, serialOpen, faults, webn, log, last, wanted,
                 cvars, bvars>>

\* one turn of the body of "while '\n' in buffer"
NextLine(c) ==
  /\ pc[c] = "lines"
  /\ LET k    == IndexOf(buffer[c], "\n")
         line == Strip(SubSeq(buffer[c], 1, k - 1))
         rest == SubSeq(buffer[c], k + 1, Len(buffer[c]))
     IN  IF StrUpper(line) \in QuitWords
           THEN /\ buffer' = [buffer EXCEPT ![c] = rest]
                /\ \/ /\ log' = [log EXCEPT ![c] = Append(log[c], Sent(Farewell))]
                      /\ pc' = [pc EXCEPT ![c] = "recv"]
                      /\ UNCHANGED <<recvs, closedBy>>
                   \/ SendFails(c)
                /\ UNCHANGED <<waitq, subs>>
         ELSE IF line # <<>>
           THEN /\ buffer' = [buffer EXCEPT ![c] = rest]
                /\ log' = [log EXCEPT ![c] = Append(log[c], Handed(line))]
                /\ subs' = [subs EXCEPT ![c] = <<line>>]
                /\ waitq' = Append(waitq, c)
                /\ pc' = [pc EXCEPT ![c] = "waiting"]
                /\ UNCHANGED <<recvs, closedBy>>
         ELSE /\ buffer' = [buffer EXCEPT ![c] = rest]
              /\ pc' = [pc EXCEPT ![c] = AtLoopTest(rest)]
              /\ UNCHANGED <<log, waitq, subs, recvs, closedBy>>
  /\ UNCHANGED <<responses, call, req, lock, dev, profile, connected,
                 serialOpen, faults, webn, last, wanted,
                 cvars, bvars>>

\* a web request arrives and reaches "with psu_lock"
WebRequest(w) ==
  /\ pc[w] = "idle"
  /\ webn < MaxWebReq
  /\ \E op \in WebOps : subs' = [subs EXCEPT ![w] = <<op>>]
  /\ webn' = webn + 1
  /\ waitq' = Append(waitq, w)
  /\ pc' = [pc EXCEPT ![w] = "waiting"]
  /\ UNCHANGED <<buffer, responses, call, req, lock, dev, profile, connected,
                 serialOpen, faults, recvs, log, last, wanted, closedBy,
                 cvars, bvars>>

\* "with psu_lock" is entered; process_command splits the line
Acquire(t) ==
  /\ pc[t] = "waiting"
  /\ LockAvailable(lock)
  /\ lock' = t
  /\ waitq' = Remove(waitq, t)
  /\ subs' = [subs EXCEPT ![t] =
                IF t \in Conns THEN SubCommands(Head(subs[t])) ELSE subs[t]]
  /\ pc' = [pc EXCEPT ![t] = "exec"]
  /\ UNCHANGED <<buffer, responses, call, req, dev, profile, connected,
                 serialOpen, faults, recvs, webn, log, last, wanted, closedBy,
                 cvars, bvars>>

\* _process_single_command: normalize, dispatch, enter the handler
ProcessSub(c) ==
  /\ pc[c] = "exec"
  /\ subs[c] # <<>>
  /\ LET n == NormalizeCommand(Head(subs[c]))
         h == FindHandler(CmdName(n))
     IN  Begin(c, h, HandlerPlan(h, CmdParam(n), profile))
  /\ UNCHANGED <<buffer, waitq, dev, profile, connected, serialOpen, faults,
                 recvs, webn, log, wanted,
                 cvars, bvars>>

\* the body of a web route under the lock
WebCall(w) ==
  /\ pc[w] = "exec"
  /\ subs[w] # <<>>
  /\ LET op == Head(subs[w])
     IN  IF ~connected
           THEN Begin(w, op.h, PlanReply(<<"error", "Power supply not connected">>))
         ELSE IF op.h \in {"api_status", "api_stream"} THEN Begin(w, op.h, PlanQuery)
         ELSE Begin(w, op.h, PlanSet(op.args))
  /\ UNCHANGED <<buffer, waitq, dev, profile, connected, serialOpen, faults,
                 recvs, webn, log, wanted,
                 cvars, bvars>>

\* _send_command reads the response, and the handler goes on from there
RecvResponse(t) ==
  /\ pc[t] = "sent"
  /\ \E o \in Outcomes :
       LET fr == req[t]
           c  == call[t]
           st == StatusOf(dev, profile)
           tg == Targets(c.args, st)
           err == RangeError(tg.v, tg.i, profile)
       IN
       /\ faults' = IF o \in {"timeout", "crc", "short"} THEN faults + 1 ELSE faults
       /\ IF fr.fn = 3
            THEN /\ UNCHANGED <<dev, wanted>>
                 /\ IF o # "ok"
                      THEN Finish(t, c.h, c.kind,
                                  Fail(IF c.stage = "post" THEN "post" ELSE "read", o),
                                  HandlerOutcome(c.h, FailureMessage(o)),
                                  c.stage = "post", c.args.given, c.tg)
                    ELSE IF c.kind = "query"
                      THEN Finish(t, c.h, c.kind, NoFail, Reply(QueryReply(c.h, st)),
                                  FALSE, {}, NoTargets)
                    ELSE IF c.stage = "post"
                      THEN Finish(t, c.h, c.kind, NoFail, Reply(SetReply(c.h, TRUE)),
                                  TRUE, c.args.given, c.tg)
                    ELSE IF err # ""
                      THEN Finish(t, c.h, c.kind, Fail("range", "OutOfRange"),
                                  HandlerOutcome(c.h, err), FALSE, c.args.given, tg)
                    ELSE IF ~LinkUsable(connected, serialOpen)
                      THEN Finish(t, c.h, c.kind, Fail("write", "notconnected"),
                                  Reply(SetReply(c.h, FALSE)), FALSE, c.args.given, tg)
                    ELSE Continue(t, [c EXCEPT !.stage = "write", !.st = st, !.tg = tg],
                                  WriteRequest(tg, profile))
            ELSE /\ dev' = IF o # "timeout" THEN DeviceAfterWrite(dev, fr) ELSE dev
                 /\ wanted' = IF o = "ok"
                                THEN [v |-> IF "v" \in c.args.given THEN c.args.v ELSE wanted.v,
                                      i |-> IF "i" \in c.args.given THEN c.args.i ELSE wanted.i]
                                ELSE wanted
                 /\ IF o = "ok" /\ c.h \in WebHandlers /\ LinkUsable(connected, serialOpen)
                      THEN Continue(t, [c EXCEPT !.stage = "post"], ReadRequest)
                      ELSE Finish(t, c.h, c.kind,
                                  IF o = "ok" THEN NoFail ELSE Fail("write", o),
                                  Reply(SetReply(c.h, o = "ok")),
                                  TRUE, c.args.given, c.tg)
  /\ UNCHANGED <<buffer, waitq, profile, connected, serialOpen, recvs, webn, log,
                 cvars, bvars>>

\* The generator of /api/stream has its event: the status was read, or the
\* session is not connected.  (A failed read leaves the with block by its
\* exception.)
EventReady(t) ==
  /\ t \in Webs
  /\ last[t].h = "api_stream"
  /\ last[t].fail = NoFail

\* The "with psu_lock" block is left.  A connection then sends the joined
\* reply, unless it is empty, and is back at the loop test; a web route
\* returns its response.
Release(t) ==
  /\ pc[t] = "exec"
  /\ subs[t] = <<>>
  /\ ~EventReady(t)
  /\ lock' = LockAfterWith(lock)
  /\ \/ /\ pc' = [pc EXCEPT ![t] = IF t \in Conns THEN AtLoopTest(buffer[t]) ELSE "idle"]
        /\ log' = IF t \in Conns /\ Join(responses[t]) # <<>>
                    THEN [log EXCEPT ![t] =
                            Append(log[t], Sent(Join(responses[t]) \o <<"\n">>))]
                    ELSE log
        /\ UNCHANGED <<recvs, closedBy>>
     \/ /\ t \in Conns
        /\ Join(responses[t]) # <<>>
        /\ SendFails(t)
  /\ responses' = [responses EXCEPT ![t] = <<>>]
  /\ UNCHANGED <<buffer, subs, call, req, waitq, dev, profile, connected,
                 serialOpen, faults, webn, last, wanted,
                 cvars, bvars>>

\* main() on shutdown: psu.close(), while the daemon threads still run
Shutdown ==
  /\ connected
  /\ connected' = FALSE
  /\ serialOpen' = FALSE
  /\ UNCHANGED <<pc, buffer, subs, responses, call, req, lock, waitq, dev,
                 profile, faults, recvs, webn, log, last, wanted, closedBy,
                 cvars, bvars>>

Next ==
  \/ \E c \in Conns : Recv(c)
  \/ \E c \in Conns : Disconnect(c)
  \/ \E c \in Conns : NextLine(c)
  \/ \E c \in Conns : ProcessSub(c)
  \/ \E w \in Webs : WebRequest(w)
  \/ \E w \in Webs : WebCall(w)
  \/ \E t \in Threads : Acquire(t)
  \/ \E t \in Threads : RecvResponse(t)
  \/ \E t \in Threads : Release(t)
  \/ Shutdown

Spec == Init /\ [][Next]_vars

(* ---------------------------------------------------------------------- *)
(* The event stream of the web API next to the SCPI connections            *)
(* ---------------------------------------------------------------------- *)
\* GET /api/stream: the generator reaches "with psu_lock"
StreamRequest(w) ==
  /\ pc[w] = "idle"
  /\ webn < MaxWebReq
  /\ subs' = [subs EXCEPT ![w] = <<[h |-> "api_stream", args |-> NoArgs]>>]
  /\ webn' = webn + 1
  /\ waitq' = Append(waitq, w)
  /\ pc' = [pc EXCEPT ![w] = "waiting"]
  /\ UNCHANGED <<buffer, responses, call, req, lock, dev, profile, connected,
                 serialOpen, faults, recvs, log, last, wanted, closedBy,
                 cvars, bvars>>

\* The generator yields its event inside the with block: it is suspended
\* there while the server writes the event to the client.
StreamYield(w) ==
  /\ pc[w] = "exec"
  /\ subs[w] = <<>>
  /\ EventReady(w)
  /\ pc' = [pc EXCEPT ![w] = "yield"]
  /\ UNCHANGED <<buffer, subs, responses, call, req, lock, waitq, dev, profile,
                 connected, serialOpen, faults, recvs, webn, log, last, wanted,
                 closedBy, cvars, bvars>>

\* The client has taken the event (or has gone and the generator is
\* closed): the generator leaves the with block and sleeps.
StreamResume(w) ==
  /\ pc[w] = "yield"
  /\ lock' = LockAfterWith(lock)
  /\ pc' = [pc EXCEPT ![w] = "idle"]
  /\ responses' = [responses EXCEPT ![w] = <<>>]
  /\ UNCHANGED <<buffer, subs, call, req, waitq, dev, profile, connected,
                 serialOpen, faults, recvs, webn, log, last, wanted, closedBy,
                 cvars, bvars>>

NextStream ==
  \/ \E c \in Conns : Recv(c)
  \/ \E c \in Conns : NextLine(c)
  \/ \E c \in Conns : ProcessSub(c)
  \/ \E w \in Webs : StreamRequest(w)
  \/ \E w \in Webs : WebCall(w)
  \/ \E w \in Webs : StreamYield(w)
  \/ \E w \in Webs : StreamResume(w)
  \/ \E t \in Threads : Acquire(t)
  \/ \E t \in Threads : RecvResponse(t)
  \/ \E t \in Threads : Release(t)
  \/ Shutdown

SpecStream == Init /\ [][NextStream]_vars

(* ---------------------------------------------------------------------- *)
(* One client, one line: the command processor at work                     *)
(* ---------------------------------------------------------------------- *)
OutpOnLine == <<"O","U","T","P"," ","O","N",";","O","U","T","P","?">>

OutpOffLine == <<"O","U","T","P"," ","O","F","F",";","O","U","T","P","?">>

FooBarLine == <<"F","O","O",":","B","A","R">>

IdnLine == <<"*","I","D","N","?">>

\* every name of the command table written out in full, in upper case, in
\* lower case and in the spelling of the table
FullFormLines ==
  UNION { {StrUpper(commands[k].pat), StrLower(commands[k].pat), commands[k].pat} :
          k \in 1..Len(commands) }

\* the lines the client may send
CommandLines ==
  FullFormLines \cup
  { OutpOnLine, OutpOffLine, FooBarLine, IdnLine, VoltLine,
    <<"*","i","d","n","?"," ","x">>,
    <<"F","O","O",":","B","A","R",";","*","R","S","T">>,
    <<"v","o","l","t","a","g","e"," ","5">>,
    <<";">>,
    <<"O","U","T","P"," ","X">>,
    <<"*","I","D","N","?",";",";"," ","*","T","S","T","?">> }

\* the profiles detection may have produced
CommandProfiles ==
  { [voltage_decimal_places |-> 2, current_decimal_places |-> 2,
     voltage_series |-> vs, current_series |-> cs,
     max_voltage_raw |-> 600, max_current_raw |-> 300,
     little_endian |-> TRUE] : vs \in {0, 1}, cs \in {2, 5} }

\* Connection c1 has been accepted and greeted and has received one line;
\* the other connection has gone and no web request is under way.
InitCommand ==
  /\ pc = [t \in Threads |-> IF t = "c1" THEN "lines"
                             ELSE IF t \in Conns THEN "closed" ELSE "idle"]
  /\ \E line \in CommandLines :
       buffer = [c \in Conns |-> IF c = "c1" THEN line \o <<"\n">> ELSE <<>>]
  /\ subs = [t \in Threads |-> <<>>]
  /\ responses = [t \in Threads |-> <<>>]
  /\ call = [t \in Threads |-> NoCall]
  /\ req = [t \in Threads |-> NoRequest]
  /\ lock = NoHolder
  /\ waitq = <<>>
  /\ \E p \in BOOLEAN : dev = [InitialDevice(502, 100) EXCEPT !.power = p]
  /\ profile \in CommandProfiles
  /\ connected = TRUE
  /\ serialOpen = TRUE
  /\ faults = 0
  /\ recvs = MaxRecv
  /\ webn = MaxWebReq
  /\ log = [c \in Conns |-> <<Sent(Greeting)>>]
  /\ last = [t \in Threads |-> NoLast]
  /\ wanted = [v |-> 0 - 1, i |-> 0 - 1]
  /\ closedBy = [c \in Conns |-> IF c = "c1" THEN "open" ELSE "peer"]
  /\ Constructed
  /\ BytesUnused

NextCommand ==
  \/ \E c \in Conns : NextLine(c)
  \/ \E c \in Conns : ProcessSub(c)
  \/ \E t \in Threads : Acquire(t)
  \/ \E t \in Threads : RecvResponse(t)
  \/ \E t \in Threads : Release(t)

SpecCommand == InitCommand /\ [][NextCommand]_vars

(* ---------------------------------------------------------------------- *)
(* WanptekPowerSupply(): the construction of the session                   *)
(* ---------------------------------------------------------------------- *)
Ports == {"/dev/ttyUSB0", "/dev/ttyUSB1", "/dev/ttyS0"}

\* find_devices(): the sorted serial devices of the machine
FoundLists ==
  { <<>>, <<"/dev/ttyUSB0">>, <<"/dev/ttyUSB1">>, <<"/dev/ttyUSB0", "/dev/ttyUSB1">> }

\* the pairs at which a unit may be listening
AnswerPairs == {<<p, b>> : p \in Ports, b \in {9600, 4800}}

Machines ==
  { [found |-> f, openable |-> o, answering |-> a] :
      f \in FoundLists,
      o \in {{}, {"/dev/ttyUSB0"}, Ports},
      a \in {x \in SUBSET AnswerPairs : Cardinality(x) <= 2} }

\* the arguments a caller may construct the session with
CtorArgs ==
  { [port |-> p, baudrate |-> b, auto_detect |-> a] :
      p \in {NotGiven(""), Given(""), Given("/dev/ttyS0"), Given("/dev/ttyUSB1")},
      b \in {NotGiven(0), Given(0), Given(9600), Given(2400)},
      a \in BOOLEAN }

\* serial.Serial(port, baudrate) succeeds
Opens(pair, machine) == pair[1] \in machine.openable

\* _send_command gets past its guard and writes the status read request
Frames(pair, machine, conn) == Opens(pair, machine) /\ LinkUsable(conn, TRUE)

\* the request is answered with a valid status frame
Answers(pair, machine, conn) == Frames(pair, machine, conn) /\ pair \in machine.answering

\* a link that stays open when the connection attempt fails
SerialAfterConnectLeftOpen(opened, answered) == opened

\* self.serial.is_open when _connect returns: the except clause closes the
\* link it has opened
SerialAfterConnect(opened, answered) == answered

\* _connect(port, baudrate)
Connect(pair) ==
  /\ tried' = Append(tried, pair)
  /\ serialAt' = IF Opens(pair, env) THEN pair ELSE serialAt
  /\ framed' = IF Frames(pair, env, connected) THEN Append(framed, pair) ELSE framed
  /\ serialOpen' = SerialAfterConnect(Opens(pair, env), Answers(pair, env, connected))
  /\ connected' = (connected \/ Answers(pair, env, connected))
  /\ profile' = IF Answers(pair, env, connected)
                  THEN DetectDeviceSpecs(BenchFrame) ELSE profile

\* the variables of the session that construction leaves alone
served ==
  <<pc, buffer, subs, responses, call, req, lock, waitq, dev, faults, recvs,
    webn, log, last, wanted, closedBy, bvars>>

\* The constructor has been entered: nothing is connected, no client is
\* served.
InitConnect ==
  /\ pc = [t \in Threads |-> IF t \in Conns THEN "closed" ELSE "idle"]
  /\ buffer = [c \in Conns |-> <<>>]
  /\ subs = [t \in Threads |-> <<>>]
  /\ responses = [t \in Threads |-> <<>>]
  /\ call = [t \in Threads |-> NoCall]
  /\ req = [t \in Threads |-> NoRequest]
  /\ lock = NoHolder
  /\ waitq = <<>>
  /\ dev = InitialDevice(502, 100)
  /\ profile = InitialProfile
  /\ connected = FALSE
  /\ serialOpen = FALSE
  /\ faults = 0
  /\ recvs = 0
  /\ webn = 0
  /\ log = [c \in Conns |-> <<>>]
  /\ last = [t \in Threads |-> NoLast]
  /\ wanted = [v |-> 0 - 1, i |-> 0 - 1]
  /\ closedBy = [c \in Conns |-> "never accepted"]
  /\ env \in Machines
  /\ ctorArgs \in CtorArgs
  /\ ctorState = "running"
  /\ tried = <<>>
  /\ framed = <<>>
  /\ serialAt = NoPair
  /\ BytesUnused

\* _auto_connect: one turn of the nested loops
TryPair ==
  /\ ctorState = "running"
  /\ ctorArgs.auto_detect
  /\ Len(tried) < Len(Candidates(ctorArgs, env))
  /\ LET pair == Candidates(ctorArgs, env)[Len(tried) + 1]
     IN  /\ Connect(pair)
         /\ ctorState' = IF Answers(pair, env, connected) THEN "connected" ELSE "running"
  /\ UNCHANGED <<served, env, ctorArgs>>

\* _auto_connect: the loops are exhausted, the exception is raised
GiveUp ==
  /\ ctorState = "running"
  /\ ctorArgs.auto_detect
  /\ Len(tried) = Len(Candidates(ctorArgs, env))
  /\ ctorState' = "notfound"
  /\ UNCHANGED <<served, profile, connected, serialOpen, env, ctorArgs, tried,
                 framed, serialAt>>

\* __init__ with auto_detect=False: ValueError without a port, else one
\* call of _connect whose result is not looked at
ConstructExplicit ==
  /\ ctorState = "running"
  /\ ~ctorArgs.auto_detect
  /\ IF ~ctorArgs.port.given
       THEN /\ ctorState' = "valueerror"
            /\ UNCHANGED <<profile, connected, serialOpen, tried, framed, serialAt>>
       ELSE /\ Connect(<<ctorArgs.port.v,
                         IF ctorArgs.baudrate.given THEN ctorArgs.baudrate.v ELSE 9600>>)
            /\ ctorState' = "constructed"
  /\ UNCHANGED <<served, env, ctorArgs>>

NextConnect == TryPair \/ GiveUp \/ ConstructExplicit

SpecConnect == InitConnect /\ [][NextConnect]_vars

(* ---------------------------------------------------------------------- *)
(* The conversions of the transport, one at a time                         *)
(*                                                                         *)
(* SpecCodec applies _pack_word/_unpack_word to a word, _calculate_crc     *)
(* and the verification of _send_command to a frame that line noise may    *)
(* have damaged in one bit, and _detect_device_specs to a status frame.    *)
(* ---------------------------------------------------------------------- *)
\* no client is served and the session is not constructed by the library
Unserved ==
  /\ pc = [t \in Threads |-> IF t \in Conns THEN "closed" ELSE "idle"]
  /\ buffer = [c \in Conns |-> <<>>]
  /\ subs = [t \in Threads |-> <<>>]
  /\ responses = [t \in Threads |-> <<>>]
  /\ call = [t \in Threads |-> NoCall]
  /\ req = [t \in Threads |-> NoRequest]
  /\ lock = NoHolder
  /\ waitq = <<>>
  /\ dev = InitialDevice(502, 100)
  /\ faults = 0
  /\ recvs = 0
  /\ webn = 0
  /\ log = [c \in Conns |-> <<>>]
  /\ last = [t \in Threads |-> NoLast]
  /\ wanted = [v |-> 0 - 1, i |-> 0 - 1]
  /\ closedBy = [c \in Conns |-> "never accepted"]
  /\ Constructed

ByteSamples == {0, 1, 2, 15, 16, 127, 128, 255}

Words == {hi * 256 + lo : hi \in ByteSamples, lo \in ByteSamples}

\* The registers of a unit.  status_byte: bit 0 output on, bit 1 OCP, bit 2
\* keyboard lock, bit 3 big-endian words, bit 4 CC mode, bit 5 alarm.
Unit(flags, vinfo, iinfo, rv, ri, sv, si, mv, mi) ==
  [status_byte |-> flags, voltage_info |-> vinfo, current_info |-> iinfo,
   real_voltage_raw |-> rv, real_current_raw |-> ri,
   set_voltage_raw |-> sv, set_current_raw |-> si,
   max_voltage_raw |-> mv, max_current_raw |-> mi]

\* The answer of a unit to a status read: address, function, byte count,
\* the 16 bytes that read_status decodes, checksum.  The unit sends its
\* words in the byte order its status byte announces.
StatusResponse(slave_addr, u) ==
  LET w(x) == PackWord(x, ~BitSet(u.status_byte, 8))
  IN  AppendCrc(<<slave_addr, 3, 16, u.status_byte, u.voltage_info,
                  u.current_info, 0>>
                \o w(u.real_voltage_raw) \o w(u.real_current_raw)
                \o w(u.set_voltage_raw) \o w(u.set_current_raw)
                \o w(u.max_voltage_raw) \o w(u.max_current_raw))

\* _detect_device_specs decoding the limit words low byte first always
DetectedProfileLittleWords(status) ==
  LET data == Payload(status)
  IN  DetectDeviceSpecs(
        [status_byte |-> data[1], voltage_info |-> data[2],
         current_info |-> data[3],
         max_voltage_raw |-> UnpackLittle(SubSeq(data, 13, 14)),
         max_current_raw |-> UnpackLittle(SubSeq(data, 15, 16))])

\* _detect_device_specs: the profile derived from the bytes of a status
\* frame; the limit words are decoded after little_endian has been assigned
DetectedProfile(status) ==
  LET data == Payload(status)
      le   == ~BitSet(data[1], 8)
  IN  DetectDeviceSpecs(
        [status_byte |-> data[1], voltage_info |-> data[2],
         current_info |-> data[3],
         max_voltage_raw |-> UnpackWord(SubSeq(data, 13, 14), le),
         max_current_raw |-> UnpackWord(SubSeq(data, 15, 16), le)])

\* line noise: bit n of the frame (bit n % 8 of byte n \div 8) is inverted
FlipBit(frame, n) ==
  LET k == (n \div 8) + 1
      m == 2 ^ (n % 8)
  IN  [frame EXCEPT ![k] = IF BitSet(frame[k], m) THEN frame[k] - m
                           ELSE frame[k] + m]

NoBit == 0 - 1

Damage(frame, n) == IF n = NoBit THEN frame ELSE FlipBit(frame, n)

\* the words to convert, under both settings of the session
WordJobs ==
  {[op |-> "word", stage |-> "start", value |-> v, little_endian |-> le,
    packed |-> <<>>, unpacked |-> 0 - 1] : v \in Words, le \in BOOLEAN}

\* the flags and configuration bytes of the units whose frames are derived
ConfigSamples == {0, 2, 8, 9, 13, 14, 16, 25, 255}

CodecUnits ==
  {Unit(flags, vinfo, iinfo, 0, 0, 502, 100, mv, 300) :
     flags \in {0, 3, 8, 43}, vinfo \in ConfigSamples,
     iinfo \in ConfigSamples, mv \in {600, 3000, 65535}}

\* frame bodies to checksum: both requests and three status answers
Bodies ==
  {ReadRequestBody(0, h) : h \in {"little", "big"}}
  \cup {WriteRequestBody(1, "little", [ctrl |-> 3, v |-> 500, i |-> 100],
                         [little_endian |-> le]) : le \in BOOLEAN}
  \cup {DataPart(StatusResponse(0, u)) :
          u \in {Unit(0, 0, 2, 0, 0, 502, 100, 600, 300),
                 Unit(8, 0, 2, 0, 0, 502, 100, 600, 300),
                 Unit(43, 25, 255, 65535, 1, 0, 128, 3000, 500)}}

CrcJobs ==
  {[op |-> "crc", stage |-> "start", body |-> b, bit |-> n,
    full |-> <<>>, response |-> <<>>, outcome |-> "none"] :
     b \in Bodies, n \in {NoBit} \cup (0 .. 151)}

\* status frames as _read_raw_status may collect them: whole, cut short,
\* and damaged in one bit
DetectFrames ==
  {StatusResponse(0, u) : u \in CodecUnits}
  \cup {SubSeq(StatusResponse(0, u), 1, n) :
          u \in {Unit(0, 0, 2, 0, 0, 502, 100, 600, 300)}, n \in {0, 2, 8, 20}}
  \cup {FlipBit(StatusResponse(0, u), n) :
          u \in {Unit(8, 9, 2, 0, 0, 502, 100, 600, 300)}, n \in {35, 100}}

DetectJobs ==
  {[op |-> "detect", stage |-> "start", status |-> f, outcome |-> "none"] :
     f \in DetectFrames}

InitCodec ==
  /\ Unserved
  /\ profile = InitialProfile
  /\ connected = TRUE
  /\ serialOpen = TRUE
  /\ codec \in {j \in WordJobs \cup CrcJobs \cup DetectJobs :
                  j.op = "crc" => j.bit < 8 * Len(j.body)}
  /\ host = "little"
  /\ attached = BenchFrame
  /\ arriving = <<>>
  /\ rx = <<>>
  /\ libcall = NoOp
  /\ sends = <<>>

\* everything but the conversion under way and the profile
notcodec ==
  <<pc, buffer, subs, responses, call, req, lock, waitq, dev, connected,
    serialOpen, faults, recvs, webn, log, last, wanted, closedBy, cvars,
    host, attached, arriving, rx, libcall, sends>>

\* _pack_word, then _unpack_word of its result
PackUnpack ==
  /\ codec.op = "word" /\ codec.stage = "start"
  /\ LET bytes == PackWord(codec.value, codec.little_endian)
     IN  codec' = [codec EXCEPT !.stage = "done", !.packed = bytes,
                     !.unpacked = UnpackWord(bytes, codec.little_endian)]
  /\ UNCHANGED <<profile, notcodec>>

\* _send_command: the checksum is appended to the frame
Checksum ==
  /\ codec.op = "crc" /\ codec.stage = "start"
  /\ codec' = [codec EXCEPT !.stage = "framed", !.full = AppendCrc(codec.body)]
  /\ UNCHANGED <<profile, notcodec>>

\* _send_command: the frame comes back, damaged or not, and is verified
Verify ==
  /\ codec.op = "crc" /\ codec.stage = "framed"
  /\ LET response == Damage(codec.full, codec.bit)
     IN  codec' = [codec EXCEPT !.stage = "done", !.response = response,
                     !.outcome = SendOutcome(response)]
  /\ UNCHANGED <<profile, notcodec>>

\* _detect_device_specs on the bytes _send_command has collected
Detect ==
  /\ codec.op = "detect" /\ codec.stage = "start"
  /\ codec' = [codec EXCEPT !.stage = "done",
                            !.outcome = StatusOutcome(codec.status)]
  /\ profile' = IF StatusOutcome(codec.status) = "ok"
                  THEN DetectedProfile(codec.status) ELSE profile
  /\ UNCHANGED notcodec

NextCodec == PackUnpack \/ Checksum \/ Verify \/ Detect

SpecCodec == InitCodec /\ [][NextCodec]_vars

(* ---------------------------------------------------------------------- *)
(* The session seen byte by byte                                           *)
(*                                                                         *)
(* SpecLink follows one caller of the library through read_status,         *)
(* set_output, close and reconnect on a connected session, with the        *)
(* frames written, the bytes the unit answers with, their arrival in the   *)
(* input buffer (possibly late, possibly in two pieces) and the read loop  *)
(* of _send_command.                                                       *)
(* ---------------------------------------------------------------------- *)
MaxCalls == 2

SlaveAddr == 0

ChunkSize == 1024

\* the units at the other end of the link: little-endian, big-endian, and
\* one with a single decimal place for voltages whose output is on
LinkUnits ==
  {Unit(0, 0, 2, 0, 0, 502, 100, 600, 300),
   Unit(8, 0, 2, 0, 0, 502, 100, 600, 300),
   Unit(1, 25, 2, 50, 0, 50, 100, 300, 300)}

\* set_output(voltage=5.0) and power_on()
LinkArgs ==
  {Args({"v"}, 5000, 0, FALSE, FALSE, FALSE),
   Args({"p"}, 0, 0, TRUE, FALSE, FALSE)}

NoLinkArgs == Args({}, 0, 0, FALSE, FALSE, FALSE)

\* no library call is under way; n calls have been made, the last one
\* ended with ret and, for a status read, the dictionary in status
Idle(n, ret, status) ==
  [name |-> "idle", stage |-> "idle", args |-> NoLinkArgs, status |-> status,
   ret |-> ret, n |-> n]

\* call number n is inside _send_command for its status read (stage
\* "read") or its write (stage "write")
Busy(name, stage, args, n) ==
  [name |-> name, stage |-> stage, args |-> args, status |-> <<>>,
   ret |-> "running", n |-> n]

\* The unit answers a status read with its status frame and a write with
\* the first six bytes of the request.
ValidReply(frame, u) ==
  IF frame[2] = 3 THEN StatusResponse(frame[1], u)
  ELSE AppendCrc(SubSeq(frame, 1, 6))

\* a MODBUS exception answer: function code with bit 7 set, one code byte
ExceptionReply(frame) == AppendCrc(<<frame[1], frame[2] + 128, 2>>)

\* a status answer arrives whole or in two pieces
Splits(reply) ==
  {<<reply>>}
  \cup {<<SubSeq(reply, 1, n), SubSeq(reply, n + 1, Len(reply))>> :
          n \in {k \in {2, 5} : Len(reply) > 8}}

\* what may come back for a frame: the answer; or, while the link may
\* still fail, nothing, the answer with one bit inverted, an exception
\* answer, or the first two bytes of the answer only
UnitAnswers(frame, valid, nfaults) ==
  Splits(valid)
  \cup (IF nfaults < MaxFaults
          THEN {<<>>, <<FlipBit(valid, 20)>>, <<ExceptionReply(frame)>>,
                <<SubSeq(valid, 1, 2)>>}
          ELSE {})

\* whether an answer comes within the timeout of the link (FALSE) or after
\* it (TRUE): the unit's answer may be late while the link may still fail
LateAnswers(pieces, valid, nfaults) ==
  {FALSE} \cup (IF nfaults < MaxFaults /\ pieces \in Splits(valid)
                  THEN {TRUE} ELSE {})

\* the unit stores what a write request carries, reading the words in its
\* own byte order
UnitAfterWrite(u, frame) ==
  LET le == ~BitSet(u.status_byte, 8)
      sv == UnpackWord(SubSeq(frame, 10, 11), le)
  IN  [u EXCEPT !.status_byte = 8 * (u.status_byte \div 8) + (frame[8] % 8),
                !.set_voltage_raw = sv,
                !.set_current_raw = UnpackWord(SubSeq(frame, 12, 13), le),
                !.real_voltage_raw = IF frame[8] % 2 = 1 THEN sv ELSE 0]

\* an input buffer that survives the send
KeepInputBuffer(buf) == buf

\* serial.reset_input_buffer()
ResetInputBuffer(buf) == <<>>

\* a frame written twice
WrittenTwice(history, rec) == Append(Append(history, rec), rec)

\* serial.write(full_command): one more frame on the link
Written(history, rec) == Append(history, rec)

\* the bytes of a response, without the note of when each arrived
Bytes(response) == [k \in 1..Len(response) |-> response[k].b]

InitLink ==
  /\ Unserved
  /\ codec = NoJob
  /\ host \in {"little", "big"}
  /\ \E first \in LinkUnits :
       profile = DetectedProfile(StatusResponse(SlaveAddr, first))
  /\ attached \in LinkUnits
  /\ connected = TRUE
  /\ serialOpen = TRUE
  /\ arriving = <<>>
  /\ rx = <<>>
  /\ libcall = Idle(0, "none", <<>>)
  /\ sends = <<>>

\* what the library caller and the link leave alone
offlink ==
  <<pc, buffer, subs, responses, call, req, lock, waitq, dev, recvs, webn,
    log, last, wanted, closedBy, cvars, codec, host>>

\* _send_command up to the read loop: the input buffer buf is flushed, the
\* frame is written after the calls in history, and the unit answers
SendCommand(history, buf, command, nxt) ==
  LET frame == AppendCrc(command)
      valid == ValidReply(frame, attached)
  IN  /\ rx' = ResetInputBuffer(buf)
      /\ libcall' = nxt
      /\ \E pieces \in UnitAnswers(frame, valid, faults) :
         \E late \in LateAnswers(pieces, valid, faults) :
           /\ sends' = Written(history,
                               [call |-> nxt.n, frame |-> frame,
                                flushed |-> Len(buf), answer |-> pieces,
                                late |-> late,
                                response |-> <<>>, outcome |-> "pending"])
           /\ arriving' = arriving \o pieces
           /\ faults' = IF pieces \in Splits(valid) /\ ~late THEN faults
                        ELSE faults + 1
           /\ attached' = IF frame[2] = 16 /\ pieces # <<>>
                            THEN UnitAfterWrite(attached, frame) ELSE attached

\* the guard of _send_command fails: "Device not connected"
Refused(ret) ==
  /\ libcall' = Idle(libcall.n + 1, ret, <<>>)
  /\ UNCHANGED <<sends, rx, arriving, faults, attached>>

\* read_status() is called
CallReadStatus ==
  /\ libcall.name = "idle" /\ libcall.n < MaxCalls
  /\ IF LinkUsable(connected, serialOpen)
       THEN SendCommand(sends, rx, ReadRequestBody(SlaveAddr, host),
                        Busy("read_status", "read", NoLinkArgs, libcall.n + 1))
       ELSE Refused("notconnected")
  /\ UNCHANGED <<profile, connected, serialOpen, offlink>>

\* set_output(...) or one of the convenience methods is called: first its
\* status read
CallSetOutput(a) ==
  /\ libcall.name = "idle" /\ libcall.n < MaxCalls
  /\ IF LinkUsable(connected, serialOpen)
       THEN SendCommand(sends, rx, ReadRequestBody(SlaveAddr, host),
                        Busy("set_output", "read", a, libcall.n + 1))
       ELSE Refused("notconnected")
  /\ UNCHANGED <<profile, connected, serialOpen, offlink>>

\* close()
CallClose ==
  /\ libcall.name = "idle" /\ libcall.n < MaxCalls
  /\ serialOpen' = FALSE
  /\ connected' = FALSE
  /\ rx' = <<>>
  /\ libcall' = Idle(libcall.n + 1, "closed", <<>>)
  /\ UNCHANGED <<profile, sends, arriving, faults, attached, offlink>>

\* reconnect(): _connect with the link and speed of self.serial.  The old
\* link is closed and a new one is opened; _detect_device_specs then reads
\* the status, which the guard of _send_command lets through only if the
\* connected flag is still set.  The link failing to open counts among the
\* faults of the link.
CallReconnect ==
  /\ libcall.name = "idle" /\ libcall.n < MaxCalls
  /\ \/ /\ connected
        /\ SendCommand(sends, <<>>, ReadRequestBody(SlaveAddr, host),
                       Busy("reconnect", "read", NoLinkArgs, libcall.n + 1))
        /\ serialOpen' = TRUE
     \/ /\ ~connected
        /\ Refused("False")
        /\ serialOpen' = FALSE
     \/ /\ faults < MaxFaults
        /\ faults' = faults + 1
        /\ libcall' = Idle(libcall.n + 1, "False", <<>>)
        /\ serialOpen' = FALSE
        /\ UNCHANGED <<sends, rx, arriving, attached>>
  /\ UNCHANGED <<profile, connected, offlink>>

\* bytes on their way reach the input buffer of the open link
Arrive ==
  /\ arriving # <<>>
  /\ arriving' = Tail(arriving)
  /\ rx' = IF serialOpen
             THEN rx \o [k \in 1..Len(Head(arriving)) |->
                           [b |-> Head(arriving)[k], at |-> Len(sends)]]
             ELSE rx
  /\ UNCHANGED <<profile, connected, serialOpen, faults, attached, libcall,
                 sends, offlink>>

\* _send_command has collected response and leaves its read loop; the
\* caller of _send_command goes on from there
Completed(response) ==
  LET bytes == Bytes(response)
      k == Len(sends)
      o == IF libcall.stage = "write" THEN SendOutcome(bytes)
           ELSE StatusOutcome(bytes)
      history == [sends EXCEPT ![k].response = response, ![k].outcome = o]
      st == DecodeStatus(bytes, profile)
      tg == Targets(libcall.args, st)
      err == RangeError(tg.v, tg.i, profile)
      Return(ret, status) ==
        /\ libcall' = Idle(libcall.n, ret, status)
        /\ sends' = history
        /\ rx' = <<>>
        /\ UNCHANGED <<arriving, faults, attached>>
  IN  IF libcall.name = "read_status"
        THEN /\ IF o = "ok" THEN Return("status", <<st>>) ELSE Return(o, <<>>)
             /\ UNCHANGED <<profile, connected, serialOpen>>
      ELSE IF libcall.name = "reconnect"
        THEN /\ Return(IF o = "ok" THEN "True" ELSE "False", <<>>)
             /\ profile' = IF o = "ok" THEN DetectedProfile(bytes) ELSE profile
             /\ serialOpen' = (o = "ok")
             /\ UNCHANGED connected
      ELSE IF libcall.stage = "read"
        THEN /\ IF o # "ok" THEN Return(o, <<>>)
                ELSE IF err # "" THEN Return(err, <<st>>)
                ELSE SendCommand(history, <<>>,
                                 WriteRequestBody(SlaveAddr, host,
                                                  WriteRequest(tg, profile), profile),
                                 Busy("set_output", "write", libcall.args, libcall.n))
             /\ UNCHANGED <<profile, connected, serialOpen>>
      ELSE /\ Return(IF o = "ok" /\ Len(bytes) >= 8 THEN "True" ELSE "False", <<>>)
           /\ UNCHANGED <<profile, connected, serialOpen>>

\* a read() that returns whatever is in the input buffer, without waiting
ReadAvailable(buf, late, onway) == TRUE

\* chunk = self.serial.read(1024) on a link opened with timeout=self.timeout:
\* the call returns when ChunkSize bytes are in the input buffer buf, or
\* else when the timeout is over; every piece on its way (onway) that comes
\* within the timeout has arrived by then.
ReadReturns(buf, late, onway) ==
  Len(buf) >= ChunkSize \/ late \/ onway = <<>>

\* one turn of the read loop whose read() returns bytes
ReadChunk ==
  /\ libcall.name # "idle"
  /\ rx # <<>>
  /\ ReadReturns(rx, sends[Len(sends)].late, arriving)
  /\ LET response == sends[Len(sends)].response \o rx
     IN  IF Len(response) < 3
           THEN /\ sends' = [sends EXCEPT ![Len(sends)].response = response]
                /\ rx' = <<>>
                /\ UNCHANGED <<profile, connected, serialOpen, faults, attached,
                               arriving, libcall>>
           ELSE Completed(response)
  /\ UNCHANGED offlink

\* read() returns nothing and the read loop runs out of time
TimeOut ==
  /\ libcall.name # "idle"
  /\ rx = <<>>
  /\ ReadReturns(rx, sends[Len(sends)].late, arriving)
  /\ Completed(sends[Len(sends)].response)
  /\ UNCHANGED offlink

NextLink ==
  \/ CallReadStatus
  \/ \E a \in LinkArgs : CallSetOutput(a)
  \/ CallClose
  \/ CallReconnect
  \/ Arrive
  \/ ReadChunk
  \/ TimeOut

SpecLink == InitLink /\ [][NextLink]_vars

(* ---------------------------------------------------------------------- *)
(* Properties                                                              *)
(* ---------------------------------------------------------------------- *)
\* the threads whose request is on the link: written, response not yet read
InFlight == {t \in Threads : pc[t] = "sent"}

TargetOutOfRange(tg) ==
  \/ tg.v > MaxVoltage(profile)
  \/ tg.i > MaxCurrent(profile)
  \/ tg.v < 0
  \/ tg.i < 0

DeviceFailures == {"timeout", "crc", "short", "closed", "notconnected"}

\* the failures of the link and of the validation that reach a handler as
\* exceptions
RaisedFailures == {"timeout", "crc", "short", "OutOfRange"}

\* C1: at any moment at most one request is in flight on the serial link:
\* between the write of a request frame and the end of the read of its
\* response no other thread, SCPI connection or web caller, has written a
\* request.
C1_OneRequestInFlight == Cardinality(InFlight) <= 1

\* C1 witness: the write request of an SCPI connection is in flight while a
\* web caller and the other connection are held back.
C1_Witness ==
  \E c \in Conns, w \in Webs :
    /\ pc[c] = "sent"
    /\ req[c].fn = 16
    /\ pc[w] = "waiting"

\* C2 (as claimed): every write frame of set_output carries, for each
\* omitted argument, the value decoded from the status response read at the
\* start of the same call.
C2_OmittedFieldsFromStatus ==
  \A t \in Threads :
    req[t].fn = 16 =>
      LET c == call[t]
      IN  /\ "v" \notin c.args.given =>
               FromRaw(req[t].v, profile.voltage_decimal_places) = c.st.set_voltage
          /\ "i" \notin c.args.given =>
               FromRaw(req[t].i, profile.current_decimal_places) = c.st.set_current
          /\ "p" \notin c.args.given => (req[t].ctrl % 2 = 1) = c.st.power_on
          /\ "o" \notin c.args.given => ((req[t].ctrl \div 2) % 2 = 1) = c.st.ocp_enabled
          /\ "k" \notin c.args.given => ((req[t].ctrl \div 4) % 2 = 1) = c.st.keyboard_locked

\* C3 (as claimed): on a responsive unit, once the set calls have completed
\* a status read reports the voltage and the current of the latest
\* successful set of each, whichever callers issued them.
C3_NoLostUpdate ==
  (faults = 0 /\ connected /\ \A t \in Threads : req[t].fn # 16) =>
    /\ wanted.v >= 0 => StatusOf(dev, profile).set_voltage = wanted.v
    /\ wanted.i >= 0 => StatusOf(dev, profile).set_current = wanted.i

C5_OutOfRangeRejected ==
  /\ \A t \in Threads :
       (last[t].kind = "set" /\ last[t].fail.at # "read" /\ TargetOutOfRange(last[t].tg))
         => (last[t].fail = Fail("range", "OutOfRange") /\ ~last[t].wrote)
  /\ \A t \in Threads : req[t].fn = 16 => ~TargetOutOfRange(call[t].tg)

\* C5 witness: a set_output call has been rejected for a current that no
\* argument gave: it was filled in from the status read and is above the
\* maximum.
C5_Witness ==
  \E t \in Threads :
    /\ last[t].fail = Fail("range", "OutOfRange")
    /\ "i" \notin last[t].given
    /\ last[t].tg.i > MaxCurrent(profile)
    /\ ~last[t].wrote

\* C6 (as claimed): a set command whose write request failed is never
\* answered "OK".
C6_WriteFailureNotOk ==
  \A c \in Conns : last[c].fail.at = "write" => last[c].reply # <<"OK">>

\* C7 (as claimed): every failure raised inside a command handler is
\* answered "ERROR: <message>".
C7_FailureRenderedWithMessage ==
  \A c \in Conns :
    (last[c].fail.at \in {"read", "range"} /\ last[c].fail.kind \in RaisedFailures) =>
      (Len(last[c].reply) = 2 /\ last[c].reply[1] = "ERROR: ")

\* C8: a device error during a command never ends the client's session:
\* a connection is closed only because of what happened at its socket (the
\* peer has gone, recv() or send() has failed), and after the error the
\* loop is at the next line of the connection.
C8_SessionSurvivesDeviceError ==
  \A c \in Conns :
    /\ closedBy[c] # "raised"
    /\ pc[c] = "closed" => closedBy[c] \in {"peer", "error", "send"}
    /\ (last[c].fail.kind \in DeviceFailures /\ closedBy[c] = "open")
         => pc[c] \in {"recv", "lines", "waiting", "exec", "sent"}

\* C8 witness: a command of a connection met a device error, and the next
\* line of the same connection has been handed over.
C8_Witness ==
  \E c \in Conns :
    /\ last[c].fail.kind \in DeviceFailures
    /\ pc[c] = "waiting"

\* C9 (as claimed): after the farewell no line of that connection is handed
\* to the command processor.
C9_NothingHandedAfterQuit ==
  \A c \in Conns :
    \A j, k \in 1..Len(log[c]) :
      (j < k /\ log[c][j] = Sent(Farewell)) => log[c][k].k # "cmd"

\* C10 (as claimed): on a responsive unit the line "VOLT 5.0;VOLT?" is
\* answered "OK" and then "5.000".
C10_VoltSetThenQuery ==
  \A c \in Conns :
    \A k \in 1..(Len(log[c]) - 1) :
      (log[c][k] = Handed(VoltLine) /\ faults = 0 /\ connected)
        => log[c][k + 1] = Sent(<<"OK", "\n">> \o Fmt3(5000) \o <<"\n">>)


\* the positions of the lines handed to the command processor in the log of c
HandedAt(c) == {k \in 1..Len(log[c]) : log[c][k].k = "cmd"}

\* the line connection c handed over last
CurrentLine(c) ==
  IF HandedAt(c) = {} THEN <<>>
  ELSE log[c][CHOOSE k \in HandedAt(c) : \A j \in HandedAt(c) : j <= k].text

\* the upper-cased names of the command table
TableNames == {StrUpper(commands[k].pat) : k \in 1..Len(commands)}

UnknownCommand == <<"ERROR: ", "Unknown command">>

\* C11: on a connected session without link failures, the line
\* "OUTP ON;OUTP?" is answered "OK" then "1" and the line "OUTP OFF;OUTP?"
\* is answered "OK" then "0".
C11_OutputSetThenQuery ==
  \A c \in Conns : \A k \in 1..(Len(log[c]) - 1) :
    (faults = 0 /\ connected) =>
      /\ log[c][k] = Handed(OutpOnLine)
           => log[c][k + 1] = Sent(<<"OK", "\n", "1", "\n">>)
      /\ log[c][k] = Handed(OutpOffLine)
           => log[c][k + 1] = Sent(<<"OK", "\n", "0", "\n">>)

\* C12: a command name of the table given in its full form, in any letter
\* case, is never answered "ERROR: Unknown command".
C12_FullFormsDispatched ==
  \A c \in Conns :
    (last[c].kind # "none" /\ CurrentLine(c) \in FullFormLines)
      => last[c].reply # UnknownCommand

\* C13: a sub-command whose normalized name is not in the command table is
\* answered with exactly "ERROR: Unknown command", and processing it puts
\* no request on the link.
C13_UnknownCommandRejected ==
  [][\A c \in Conns :
       ( /\ pc[c] = "exec" /\ subs[c] # <<>>
         /\ <<pc[c], subs[c]>>' # <<pc[c], subs[c]>>
         /\ CmdName(NormalizeCommand(Head(subs[c]))) \notin TableNames )
       => /\ pc'[c] = "exec"
          /\ req' = req
          /\ responses'[c] = Append(responses[c], UnknownCommand)
          /\ last'[c].reply = UnknownCommand]_vars

\* C13 witness: "FOO:BAR" has been answered with the unknown-command error.
C13_Witness ==
  \E c \in Conns : \E k \in 1..(Len(log[c]) - 1) :
    /\ log[c][k] = Handed(FooBarLine)
    /\ log[c][k + 1] = Sent(UnknownCommand \o <<"\n">>)

\* C14: normalizing a normalized line changes nothing.
C14_NormalizeIdempotent ==
  \A c \in Conns : \A k \in HandedAt(c) :
    NormalizeCommand(NormalizeCommand(log[c][k].text))
      = NormalizeCommand(log[c][k].text)

\* C15: "*IDN?" is answered with the four fields WANPTEK, the model string
\* of the profile, SN123456 and V1.0, separated by commas, and while it is
\* processed the connection has no request on the link.
C15_Identification ==
  \A c \in Conns :
    /\ CurrentLine(c) = IdnLine => pc[c] # "sent"
    /\ \A k \in 1..(Len(log[c]) - 1) :
         log[c][k] = Handed(IdnLine) =>
           log[c][k + 1] =
             Sent(<<"WANPTEK", ",", "WANPTEK ">>
                    \o NatToStr(VOLTAGE_RANGES[profile.voltage_series]) \o <<"V/">>
                    \o NatToStr(CURRENT_RANGES[profile.current_series])
                    \o <<"A", ",", "SN123456", ",", "V1.0", "\n">>)

\* C15 witness: "*IDN?" has been handed over and answered.
C15_Witness ==
  \E c \in Conns : \E k \in 1..(Len(log[c]) - 1) :
    /\ log[c][k] = Handed(IdnLine)
    /\ log[c][k + 1].k = "send"


\* the positions of the candidate pairs whose link opens and at which the
\* unit answers a status read
AnsweringAt ==
  {k \in 1..Len(Candidates(ctorArgs, env)) :
     /\ Candidates(ctorArgs, env)[k][1] \in env.openable
     /\ Candidates(ctorArgs, env)[k] \in env.answering}

\* C16: when some candidate pair yields a valid status frame, auto-detecting
\* construction ends connected to the first such pair: the pairs up to it
\* have been tried in order, one status read was made on each link that
\* opened, the profile is the one derived from the frame, and no later pair
\* is opened.
C16_FirstAnsweringPairWins ==
  (ctorState # "running" /\ ctorArgs.auto_detect /\ AnsweringAt # {}) =>
    LET k0 == CHOOSE k \in AnsweringAt : \A j \in AnsweringAt : k <= j
    IN  /\ ctorState = "connected"
        /\ connected /\ serialOpen
        /\ serialAt = Candidates(ctorArgs, env)[k0]
        /\ tried = SubSeq(Candidates(ctorArgs, env), 1, k0)
        /\ framed = SelectSeq(tried, LAMBDA pair : pair[1] \in env.openable)
        /\ profile = DetectDeviceSpecs(BenchFrame)

\* C17: when no candidate pair yields a valid status frame, auto-detecting
\* construction ends with the device-not-found error after every pair has
\* been tried once, in order, and the link is closed.
C17_ExhaustionFails ==
  (ctorState # "running" /\ ctorArgs.auto_detect /\ AnsweringAt = {}) =>
    /\ ctorState = "notfound"
    /\ tried = Candidates(ctorArgs, env)
    /\ ~serialOpen
    /\ ~connected

\* C17 witness: detection has given up after several pairs, some of them on
\* a link that opened, none of them answering.
C17_Witness ==
  /\ ctorState = "notfound"
  /\ AnsweringAt = {}
  /\ Len(tried) >= 2
  /\ \E k \in 1..Len(tried) : tried[k][1] \in env.openable

FirstLine(buf) ==
  LET k == CHOOSE k \in 1..Len(buf) :
             buf[k] = "\n" /\ \A j \in 1..(k - 1) : buf[j] # "\n"
  IN  [line |-> SubSeq(buf, 1, k - 1), rest |-> SubSeq(buf, k + 1, Len(buf))]

\* C19: within a connection the lines are handed over in the order they
\* were received (data joins the buffer at its end, a line leaves it at its
\* front), a line is handed over only when no command of the connection is
\* under way, and a reply is sent right after the line it answers.
C19_InOrderPerConnection ==
  [][\A c \in Conns :
       /\ buffer'[c] # buffer[c] =>
            \/ \E data \in Chunks : buffer'[c] = buffer[c] \o data
            \/ /\ \E k \in 1..Len(buffer[c]) : buffer[c][k] = "\n"
               /\ buffer'[c] = FirstLine(buffer[c]).rest
       /\ (log'[c] # log[c] /\ log'[c][Len(log'[c])].k = "cmd") =>
            /\ log'[c] = Append(log[c], Handed(Strip(FirstLine(buffer[c]).line)))
            /\ buffer'[c] = FirstLine(buffer[c]).rest
            /\ call[c] = NoCall /\ req[c] = NoRequest
            /\ subs[c] = <<>> /\ responses[c] = <<>>
            /\ lock # c
       /\ (log'[c] # log[c] /\ pc[c] = "exec") =>
            /\ log[c][Len(log[c])].k = "cmd"
            /\ log'[c] = Append(log[c], Sent(Join(responses[c]) \o <<"\n">>))
            /\ call[c] = NoCall /\ req[c] = NoRequest]_vars

\* C19 witness: two different lines of one connection have been handed
\* over and answered, one after the other.
C19_Witness ==
  \E c \in Conns :
    /\ Len(log[c]) = 5
    /\ log[c][2].k = "cmd" /\ log[c][3].k = "send"
    /\ log[c][4].k = "cmd" /\ log[c][5].k = "send"
    /\ log[c][2].text # log[c][4].text

\* C20: a connection that is closed does not hold the arbiter lock and is
\* not waiting for it, and the step that closes it changes neither the
\* device session nor the unit nor anything of the other callers.
C20_TeardownIsLocal ==
  /\ [](\A c \in Conns : pc[c] = "closed" =>
          (lock # c /\ \A k \in 1..Len(waitq) : waitq[k] # c))
  /\ [][\A c \in Conns :
          (pc[c] # "closed" /\ pc'[c] = "closed") =>
            /\ lock' # c
            /\ <<dev, profile, connected, serialOpen>>' = <<dev, profile, connected, serialOpen>>
            /\ \A t \in Threads \ {c} :
                 /\ <<pc[t], subs[t], responses[t], call[t], req[t]>>'
                      = <<pc[t], subs[t], responses[t], call[t], req[t]>>
                 /\ lock = t => lock' = t
            /\ \A d \in Conns \ {c} :
                 <<buffer[d], log[d], closedBy[d]>>' = <<buffer[d], log[d], closedBy[d]>>]_vars

\* C20 witness: a connection has been closed by a failed send of its reply
\* while another caller has its request on the link.
C20_Witness ==
  \E c \in Conns : \E t \in Threads \ {c} :
    /\ pc[c] = "closed" /\ closedBy[c] = "send"
    /\ pc[t] = "sent"

\* C22: a word packed and then unpacked under the same byte-order setting
\* comes back unchanged, for both settings; the little-endian encoding is
\* the low byte followed by the high byte and the big-endian encoding is
\* the same two bytes swapped.
C22_WordRoundTrip ==
  (codec.op = "word" /\ codec.stage = "done") =>
    /\ codec.unpacked = codec.value
    /\ codec.packed = IF codec.little_endian
                        THEN <<codec.value % 256, codec.value \div 256>>
                        ELSE <<codec.value \div 256, codec.value % 256>>

C22_Witness ==
  /\ codec.op = "word" /\ codec.stage = "done"
  /\ ~codec.little_endian
  /\ codec.value = 127 * 256 + 255
  /\ codec.packed = <<127, 255>>

\* C23: the checksum of a frame body is a number in 0..65535; the body
\* followed by its checksum, low byte first, passes the verification of
\* responses; the same frame with any single bit of the body inverted
\* fails it.
C23_ChecksumDetectsOneBit ==
  (codec.op = "crc" /\ codec.stage = "done") =>
    LET n == Len(codec.body)
        c == codec.full[n + 1] + 256 * codec.full[n + 2]
    IN  /\ Len(codec.full) = n + 2
        /\ SubSeq(codec.full, 1, n) = codec.body
        /\ c \in 0..65535
        /\ c = CalculateCrc(codec.body)
        /\ codec.bit = NoBit => codec.outcome = "ok"
        /\ codec.bit # NoBit =>
             /\ codec.response # codec.full
             /\ \A k \in 1..(n + 2) :
                  codec.response[k] # codec.full[k] => k = (codec.bit \div 8) + 1
             /\ codec.outcome = "crc"

C23_Witness ==
  /\ codec.op = "crc" /\ codec.stage = "done"
  /\ Len(codec.body) = 19
  /\ codec.bit = 151
  /\ codec.outcome = "crc"

\* C29: the profile derived from a valid status frame has 1 decimal place
\* where the high nibble of the configuration byte is non-zero and 2
\* otherwise, the low nibble as series code, is little-endian unless bit 3
\* of the flags byte is set, and has as its limits the words at payload
\* offsets 12-13 and 14-15, decoded in the byte order just detected and
\* divided by ten to the number of decimal places.
C29_ProfileDerivation ==
  (codec.op = "detect" /\ codec.stage = "done" /\ codec.outcome = "ok") =>
    LET f == codec.status
        little == (f[4] \div 8) % 2 = 0
        word(k) == IF little THEN f[k] + 256 * f[k + 1]
                   ELSE 256 * f[k] + f[k + 1]
        vdec == IF f[5] \div 16 # 0 THEN 1 ELSE 2
        cdec == IF f[6] \div 16 # 0 THEN 1 ELSE 2
    IN  /\ profile.voltage_decimal_places = vdec
        /\ profile.current_decimal_places = cdec
        /\ profile.voltage_series = f[5] % 16
        /\ profile.current_series = f[6] % 16
        /\ profile.little_endian = little
        /\ MaxVoltage(profile) = word(16) * (IF vdec = 1 THEN 100 ELSE 10)
        /\ MaxCurrent(profile) = word(18) * (IF cdec = 1 THEN 100 ELSE 10)

C29_Witness ==
  /\ codec.op = "detect" /\ codec.stage = "done" /\ codec.outcome = "ok"
  /\ codec.status[4] = 8
  /\ codec.status[5] = 25
  /\ codec.status[16] = 11 /\ codec.status[17] = 184
  /\ MaxVoltage(profile) = 300000

\* C30: every profile derived from a checksum-valid status frame has a
\* voltage series code in 0..8 and a current series code in 0..13, so that
\* its nominal values are entries of the two range tables.
C30_SeriesWithinTables ==
  (codec.op = "detect" /\ codec.stage = "done" /\ codec.outcome = "ok") =>
    /\ profile.voltage_series \in 0..8
    /\ profile.current_series \in 0..13
    /\ NominalVoltage(profile) \in {VOLTAGE_RANGES[k] : k \in DOMAIN VOLTAGE_RANGES}
    /\ NominalCurrent(profile) \in {CURRENT_RANGES[k] : k \in DOMAIN CURRENT_RANGES}

\* the step writes a request frame
Writes == Len(sends') > Len(sends)

\* the step ends the send that was under way
Ends(k) ==
  /\ k \in DOMAIN sends
  /\ sends[k].outcome = "pending"
  /\ sends'[k].outcome # "pending"

\* C21: once the session is constructed, no operation of the library
\* (read_status, set_output and the convenience methods, close, reconnect)
\* changes any field of the device profile.
C21_ProfileImmutable == [][profile' = profile]_vars

\* C24: how a status read ends is a function of the bytes collected as its
\* response: fewer than 3 bytes, timeout; otherwise trailing two bytes that
\* are not the checksum of the rest, checksum failure; otherwise fewer than
\* 21 bytes, malformed; otherwise success, and only then does read_status
\* return a dictionary.
C24_StatusReadOutcome ==
  [][\A k \in DOMAIN sends :
       (Ends(k) /\ sends[k].frame[2] = 3) =>
         LET r == Bytes(sends'[k].response)
             n == Len(r)
             expected ==
               IF n < 3 THEN "timeout"
               ELSE IF r[n - 1] + 256 * r[n] # CalculateCrc(SubSeq(r, 1, n - 2))
                 THEN "crc"
               ELSE IF n < 21 THEN "short"
               ELSE "ok"
         IN  /\ sends'[k].outcome = expected
             /\ libcall.name = "read_status" =>
                  /\ (libcall'.ret = "status") = (expected = "ok")
                  /\ (libcall'.status # <<>>) = (expected = "ok")
                  /\ expected # "ok" => libcall'.ret = expected]_vars

C24_Witness ==
  /\ libcall.name = "idle"
  /\ libcall.ret = "short"
  /\ Len(sends) = 1
  /\ Len(sends[1].response) = 5
  /\ CrcMatches(Bytes(sends[1].response))

\* C25: no byte that had arrived before a send began is part of the
\* response collected for that send: the input buffer is emptied before
\* the request is written.
C25_StaleBytesDiscarded ==
  \A k \in DOMAIN sends :
    \A j \in DOMAIN sends[k].response : sends[k].response[j].at >= k

C25_Witness ==
  /\ Len(sends) = 2
  /\ sends[1].outcome = "timeout"
  /\ sends[2].flushed = 21
  /\ sends[2].outcome = "ok"
  /\ Len(sends[2].response) = 21

\* C26: a send writes its frame once and ends with one outcome that never
\* changes; within one library call no frame is written after a send of
\* that call has failed, so a failed request is never sent again.
C26_WrittenOnceNeverResent ==
  /\ [](/\ \A k \in DOMAIN sends :
             sends[k].outcome = "pending" =>
               k = Len(sends) /\ libcall.name # "idle"
        /\ libcall.name # "idle" =>
             sends # <<>> /\ sends[Len(sends)].outcome = "pending"
        /\ \A j, k \in DOMAIN sends :
             (j < k /\ sends[j].call = sends[k].call) =>
               /\ sends[j].outcome = "ok"
               /\ sends[j].frame[2] = 3 /\ sends[k].frame[2] = 16
               /\ k = j + 1)
  /\ [][/\ Len(sends') \in {Len(sends), Len(sends) + 1}
        /\ \A k \in DOMAIN sends :
             /\ sends'[k].frame = sends[k].frame
             /\ sends'[k].call = sends[k].call
             /\ sends[k].outcome # "pending" => sends'[k] = sends[k]]_vars

C26_Witness ==
  /\ libcall.name = "idle"
  /\ libcall.n = 1
  /\ libcall.ret = "crc"
  /\ Len(sends) = 1
  /\ sends[1].outcome = "crc"
  /\ arriving = <<>> /\ rx = <<>>

\* C27: every request frame written ends with the checksum of the bytes
\* before it, low byte first, whatever the byte order of the session and
\* of the machine; and a response counts as a checksum failure exactly
\* when its last two bytes, read low byte first, are not the checksum of
\* the bytes before them.
C27_ChecksumLowByteFirst ==
  [][/\ Writes =>
          LET f == sends'[Len(sends')].frame
              n == Len(f)
              c == CalculateCrc(SubSeq(f, 1, n - 2))
          IN  f[n - 1] = c % 256 /\ f[n] = c \div 256
     /\ \A k \in DOMAIN sends :
          Ends(k) =>
            LET r == Bytes(sends'[k].response)
                n == Len(r)
            IN  n >= 3 =>
                  ((sends'[k].outcome = "crc") =
                     (r[n - 1] + 256 * r[n] # CalculateCrc(SubSeq(r, 1, n - 2))))]_vars

C27_Witness ==
  /\ ~profile.little_endian
  /\ Len(sends) = 2
  /\ sends[2].frame[2] = 16
  /\ sends[2].outcome = "ok"
  /\ sends[2].frame[14] # sends[2].frame[15]

\* C28: every word of every frame of a session is in the byte order the
\* profile holds: the register start and count of a read and of a write
\* request, the set-voltage and set-current words of a write request, and
\* the words decoded from a status frame, whatever endianness bit that
\* frame carries.
C28_OneByteOrderPerSession ==
  [][LET word(w) == IF profile.little_endian THEN <<w % 256, w \div 256>>
                    ELSE <<w \div 256, w % 256>>
         value(b) == IF profile.little_endian THEN b[1] + 256 * b[2]
                     ELSE 256 * b[1] + b[2]
     IN  /\ Writes =>
              LET f == sends'[Len(sends')].frame
              IN  /\ SubSeq(f, 3, 4) = word(0)
                  /\ SubSeq(f, 5, 6) = word(IF f[2] = 3 THEN 8 ELSE 3)
                  /\ (f[2] = 16 /\ "v" \in libcall'.args.given) =>
                       SubSeq(f, 10, 11)
                         = word(ToRaw(libcall'.args.v, profile.voltage_decimal_places))
         /\ (libcall.name = "read_status" /\ libcall'.ret = "status") =>
              LET r == Bytes(sends'[Len(sends)].response)
                  unit == Pow10(3 - profile.voltage_decimal_places)
              IN  libcall'.status[1].set_voltage
                    = value(SubSeq(r, 12, 13)) * unit]_vars

\* C31: every write request frame is address, function 0x10, register
\* start 0x0000, register count 0x0003, byte count 0x06, control byte,
\* reserved 0x00, set-voltage word, set-current word, checksum; the control
\* byte has bit 0 = power, bit 1 = over-current protection, bit 2 =
\* keyboard lock and nothing else; the two words are the targets (the
\* given values, else the settings just read) times 10^decimals,
\* truncated, and at most the raw maximum of the profile.
C31_WriteFrameLayout ==
  [][(Writes /\ sends'[Len(sends')].frame[2] = 16) =>
       LET f == sends'[Len(sends')].frame
           word(w) == IF profile.little_endian THEN <<w % 256, w \div 256>>
                      ELSE <<w \div 256, w % 256>>
           st == DecodeStatus(Bytes(sends'[Len(sends)].response), profile)
           tg == Targets(libcall.args, st)
           v == tg.v \div Pow10(3 - profile.voltage_decimal_places)
           i == tg.i \div Pow10(3 - profile.current_decimal_places)
       IN  /\ Len(f) = 15
           /\ f[1] = SlaveAddr
           /\ SubSeq(f, 3, 4) = word(0)
           /\ SubSeq(f, 5, 6) = word(3)
           /\ f[7] = 6
           /\ f[8] = (IF tg.p THEN 1 ELSE 0) + (IF tg.o THEN 2 ELSE 0)
                       + (IF tg.k THEN 4 ELSE 0)
           /\ f[9] = 0
           /\ SubSeq(f, 10, 11) = word(v)
           /\ SubSeq(f, 12, 13) = word(i)
           /\ v <= profile.max_voltage_raw
           /\ i <= profile.max_current_raw
           /\ SubSeq(f, 14, 15) = PackLittle(CalculateCrc(SubSeq(f, 1, 13)))]_vars

\* C32: when the command processor has finished a line, it has produced
\* one reply segment for each non-empty sub-command between the ';' of the
\* line, in their order (an error reply among them does not end the line);
\* the segments joined by newlines are sent as one line, and when the line
\* has no non-empty sub-command nothing is sent.
C32_OneSegmentPerSubCommand ==
  [][\A c \in Conns :
       (lock = c /\ lock' # c) =>
         LET line == log[c][Len(log[c])].text
             fields == Split(line, ";")
             kept == {k \in DOMAIN fields : Strip(fields[k]) # <<>>}
             nth(j) == CHOOSE k \in kept :
                         Cardinality({m \in kept : m < k}) = j - 1
             segs == responses[c]
         IN  /\ log[c][Len(log[c])].k = "cmd"
             /\ Len(segs) = Cardinality(kept)
             /\ \A j \in DOMAIN segs :
                  LET n == NormalizeCommand(Strip(fields[nth(j)]))
                      h == FindHandler(CmdName(n))
                      plan == HandlerPlan(h, CmdParam(n), profile)
                  IN  /\ segs[j] # <<>>
                      /\ plan.kind = "reply" => segs[j] = plan.reply
                      /\ plan.kind # "reply" =>
                           segs[j] # <<"ERROR: ", "Unknown command">>
             /\ IF kept = {} THEN log'[c] = log[c]
                ELSE log'[c] = Append(log[c], Sent(Join(segs) \o <<"\n">>))]_vars

\* C32 witness: the line "FOO:BAR;*RST" has been answered with the error
\* reply of its first sub-command and the reply of its second.
C32_Witness ==
  /\ Len(log["c1"]) = 3
  /\ log["c1"][2] = Handed(<<"F","O","O",":","B","A","R",";","*","R","S","T">>)
  /\ log["c1"][3] = Sent(<<"ERROR: ", "Unknown command", "\n", "OK", "\n">>)

\* the short form of a table name: its upper-case letters and punctuation
ShortForm(pat) == SelectSeq(pat, LAMBDA ch : \A k \in 1..26 : LowerChars[k] # ch)

\* the names, upper-cased, under which the table offers the handlers hs
NamesOf(hs) ==
  UNION { {StrUpper(commands[k].pat), ShortForm(commands[k].pat)} :
          k \in {j \in 1..Len(commands) : commands[j].h \in hs} }

\* C33: a sub-command that names a settable command (voltage, current,
\* output state, protection state) and has no argument is answered
\* "ERROR: Missing parameter"; one that names an output-state or
\* protection-state command with an argument other than ON, 1, OFF, 0 (in
\* any letter case) is answered "ERROR: Invalid parameter"; neither puts a
\* request on the link.
C33_ParameterErrors ==
  [][\A c \in Conns :
       ( /\ pc[c] = "exec" /\ subs[c] # <<>>
         /\ <<pc[c], subs[c]>>' # <<pc[c], subs[c]>> )
       => LET sub == Head(subs[c])
              k == IndexOf(sub, " ")
              name == StrUpper(IF k = 0 THEN sub ELSE SubSeq(sub, 1, k - 1))
              arg == IF k = 0 THEN <<>> ELSE Strip(SubSeq(sub, k + 1, Len(sub)))
              Answered(text) ==
                /\ pc'[c] = "exec"
                /\ req' = req
                /\ responses'[c] = Append(responses[c], <<"ERROR: ", text>>)
          IN  /\ (k = 0 /\ name \in NamesOf(SetHandlers))
                   => Answered("Missing parameter")
              /\ ( /\ k # 0
                   /\ name \in NamesOf({"set_output_state", "set_ocp_state"})
                   /\ ~IsOn(arg) /\ ~IsOff(arg) )
                   => Answered("Invalid parameter")]_vars

\* C34: a connection that waits in recv() for more data holds no complete
\* line in its buffer: every line whose newline has been received has been
\* processed before more data is awaited.  What has been handed to the
\* command processor and answered is then fixed by the bytes received so
\* far, however they were split across reads.
C34_LinesIndependentOfReads ==
  \A c \in Conns : pc[c] = "recv" => IndexOf(buffer[c], "\n") = 0

\* C35: the arbiter lock is held only by a caller whose device operations
\* are under way: never by a caller that waits for its client (for data,
\* for a reply to be taken, for a streamed event to be taken), that is
\* idle or whose connection is closed.  A caller waiting for the device is
\* then admitted as soon as the device call under way has ended.
C35_LockOnlyDuringDeviceWork ==
  /\ lock # NoHolder => pc[lock] \in {"exec", "sent"}
  /\ \A t \in Threads : pc[t] \in {"exec", "sent"} => lock = t

\* C36: the sub-commands of one line run as one critical section: a
\* connection holds the lock from its first sub-command until the last one
\* has replied, and no other caller has a request on the link or enters a
\* handler meanwhile; on a connected session without link failures the
\* query of the line "VOLT 5.0;VOLT?" therefore replies with the voltage
\* the same line has written.
C36_LineIsCriticalSection ==
  /\ [](/\ \A t \in Threads : pc[t] \in {"exec", "sent"} => lock = t
        /\ \A c \in Conns : \A k \in 1..(Len(log[c]) - 1) :
             (log[c][k] = Handed(VoltLine) /\ faults = 0 /\ connected)
               => log[c][k + 1] = Sent(<<"OK", "\n">> \o Fmt3(5000) \o <<"\n">>))
  /\ [][\A c \in Conns :
          /\ (lock = c /\ subs[c] # <<>>) => lock' = c
          /\ lock = c =>
               \A t \in Threads \ {c} :
                 /\ call'[t] = call[t] /\ req'[t] = req[t]
                 /\ responses'[t] = responses[t]]_vars

\* C37: while the session is not connected or its link is not open (after
\* close(), after a connection attempt that failed), every call of a
\* device operation (read_status, set_output and the methods built on
\* them) ends at once with the not-connected error, and no frame is
\* written for it.
C37_NotConnectedNothingWritten ==
  [][/\ ( /\ libcall.name = "idle"
          /\ libcall'.n = libcall.n + 1
          /\ ~(connected /\ serialOpen)
          /\ libcall'.name # "reconnect"
          /\ libcall'.ret \notin {"closed", "False"} )
        => /\ libcall' = Idle(libcall.n + 1, "notconnected", <<>>)
           /\ sends' = sends
           /\ arriving' = arriving
     /\ (Writes /\ libcall'.name # "reconnect") => (connected /\ serialOpen)]_vars

\* C37 witness: read_status or set_output called after close() has been
\* refused, and nothing was written in the session.
C37_Witness ==
  /\ libcall = Idle(2, "notconnected", <<>>)
  /\ ~connected /\ ~serialOpen
  /\ sends = <<>>

\* C38: the link is opened again only by a call of reconnect(), never by
\* another operation, failed or not; and reconnect() called after close()
\* or after a failed operation, on a link that opens and with a unit whose
\* status answer is accepted, returns True and leaves the session connected
\* with its link open.
C38_ReconnectRestores ==
  [][/\ (serialOpen' /\ ~serialOpen) =>
          (libcall.name = "idle" /\ libcall'.name = "reconnect")
     /\ ( /\ libcall.name = "idle"
          /\ libcall'.n = libcall.n + 1
          /\ libcall'.ret = "False" ) => faults' > faults
     /\ ( /\ libcall.name = "reconnect"
          /\ libcall'.name = "idle"
          /\ sends'[Len(sends)].outcome = "ok" )
        => (libcall'.ret = "True" /\ connected' /\ serialOpen')]_vars

\* the bytes of an answer that came in pieces
RECURSIVE Flatten(_)
Flatten(pieces) ==
  IF pieces = <<>> THEN <<>> ELSE Head(pieces) \o Flatten(Tail(pieces))

====
